---- MODULE Spec2Model ----
(***************************************************************************)
(* State-machine model of the MangaLens extension.                         *)
(*                                                                         *)
(*   Spec            the content script src/chome-extention/content.js     *)
(*   SpecGenerations the same, for both content-script generations         *)
(*                   (src/chome-extention/content.js and src/content.js)   *)
(*                                                                         *)
(* JavaScript runs every task to completion: an action of the model is one *)
(* task (an event handler, or the continuation of an await whose promise   *)
(* is settled by an outside event).  The variable running names the drain  *)
(* loop whose synchronous code is on the stack; every other task waits     *)
(* until running = 0.                                                      *)
(***************************************************************************)
EXTENDS Integers, Sequences, FiniteSets, TLC

\* ------------------------------------------------------------------ bounds
NumImages == 2
MaxDrains == 2
MaxPending == 2
MaxNav == 1

\* --------------------------------------------------------- program constants
MinSize == 200

Images == 1..NumImages
DrainIds == 1..MaxDrains


\* The images of a page: natural size, layout size and source.
\* A URI as the sequence of its pieces: the host, the path segments, and the
\* file name split before its size marker and before its extension.
PageSrc == <<"example.com", "manga", "page_01", ".png">>
SquareSrc == <<"i.pximg.net", "img-original", "img", "sample_p0", "_square1200", ".jpg">>
ProxySrc ==
    <<"i.pximg.net", "c", "250x250_80_a2", "img-master", "img", "sample_p0",
      "_square1200", ".jpg">>
CustomSrc ==
    <<"i.pximg.net", "c", "360x360_70", "custom-thumb", "img", "sample_p0",
      "_custom1200", ".jpg">>
NoSrc == <<>>

\* src.includes('pximg.net')
IncludesPximg(u) == \E i \in 1..Len(u) : u[i] = "i.pximg.net"

\* w, h: the natural size; lw, lh: the layout size (img.width, img.height) the
\* element has while it has not loaded, 0 without width and height attributes.
ImageKinds ==
    { [w |-> 150, h |-> 150, lw |-> 0, lh |-> 0, src |-> PageSrc],
      [w |-> 300, h |-> 400, lw |-> 0, lh |-> 0, src |-> PageSrc],
      [w |-> 300, h |-> 400, lw |-> 0, lh |-> 0, src |-> SquareSrc] }

\* Large images of the hostile host under display URIs of each shape: a size
\* marker alone, the resize proxy with a size marker, the proxy with a custom
\* marker.
PixivKinds ==
    { [w |-> 300, h |-> 400, lw |-> 0, lh |-> 0, src |-> SquareSrc],
      [w |-> 300, h |-> 400, lw |-> 0, lh |-> 0, src |-> ProxySrc],
      [w |-> 300, h |-> 400, lw |-> 0, lh |-> 0, src |-> CustomSrc] }

\* Images around the size floor.  The small ones are served by the hostile
\* host, so that both discovery protocols evaluate their size: small in one
\* dimension only, and small in both but laid out large by its attributes.
SizeKinds ==
    { [w |-> 300, h |-> 150, lw |-> 0, lh |-> 0, src |-> SquareSrc],
      [w |-> 150, h |-> 150, lw |-> 300, lh |-> 300, src |-> SquareSrc],
      [w |-> 300, h |-> 400, lw |-> 0, lh |-> 0, src |-> PageSrc] }

Generations == {"chome", "root"}

\* The answers of the OCR call: null (no answer, a non-2xx status, the abort),
\* a body without text_blocks, an empty list, or a list of blocks.
OcrResults == {"null", "nofield", "empty", "blocks"}

\* Answers an unsound server can give besides: a text_blocks list with a null
\* entry, and blocks that lack their bbox.
FaultyResults == {"nullblock", "nobbox"}

Languages == {"Korean", "English"}

VARIABLES
    generation,       \* which content script runs in the page
    isPixiv,          \* window.location.hostname.includes('pixiv.net')
    kind,             \* per image: its ImageKinds record
    present,          \* the img elements in the document
    complete,         \* per image: img.complete (loaded)
    href,             \* window.location.href
    processedImages, processingQueue, isProcessing, failedImages,
    observedImages, currentUrl, isPageChanging, imageObserver,
    handlersInstalled,\* setupPageChangeDetection has run
    initPc, scanList, \* init(): the scan's position and its snapshot
    pending,          \* per image: handleNewImage calls waiting for its load
    drainPc, drainElem, \* per processQueue execution: position and element
    running,          \* the drain loop on the stack, 0 when none
    ocrSubmissions,   \* per image: OCR requests begun (fetch to /ocr)
    ocrResult,        \* per image: the last OCR answer
    overlayInvoked,   \* images replaceTextInImage was called for
    ocrServer,        \* the OCR server of the run: "sound", or "faulty"
    faulted,          \* images whose processing raised a fault
    extractNull,      \* images for which extractImageData resolved with null
    originalPixivSrc, \* per image: dataset.originalPixivSrc, NoSrc while unset
    extractLog,       \* per drain: what extractImageData did for the item so far
    imageData,        \* per drain: the payload extractImageData resolved with
    ocrBody,          \* per drain: the body of the item's OCR request
    settingsLang,     \* settings.targetLang as loaded by init, "" when not stored
    targetLanguage,   \* the language sent with OCR requests
    el,               \* per image: src, dataset and click listener of the element
    \* background.js, the FETCH_IMAGE_OFFSCREEN handler
    fWebp,            \* message.url.includes('_webp/')
    fMsg,             \* the message: whether url is on pximg.net, and its referer
    worker,           \* the service worker script that is loaded
    fPc,              \* the handler's position
    imageBlob,        \* "null", or the Blob: "empty" (size 0) or "bytes"
    successUrl,       \* "none", or the variant whose response was taken
    fAttempts,        \* the fetches issued so far: <<variant, outcome>> pairs
    fResponse,        \* what sendResponse was called with, "none" before
    \* background.js, setupOffscreenDocument
    oPc,              \* per caller: position in setupOffscreenDocument
    offscreenCreating,\* 0 (null) or the caller whose createDocument promise it holds
    oPromise,         \* per caller: the state of its createDocument promise
    oWaitOn,          \* per caller: the promise it awaits, 0 when none
    docState,         \* the browser's offscreen document: none, creating, exists
    docOwner,         \* the caller whose createDocument the browser works on
    replies,          \* answers of the browser on their way to the worker (FIFO)
    \* the offscreen document's handleImageData
    canvas,           \* the shared canvas: size and the image drawn on it
    rPc, rTimer, rDecode, rResult, rPayload,  \* per PROCESS_IMAGE_DATA request
    \* the FETCH_IMAGE handler in the service worker
    iPc,              \* its position
    iResponse,        \* what it passed to sendResponse
    requests,         \* every fetch() the worker has issued, with its options
    relayMessages,    \* the handlers that have sent PROCESS_IMAGE_DATA
    \* one call of sendToOCRServer against the clock
    sPc,              \* its position: idle, headers, body, resolved
    sTimer,           \* the abort timer: none, armed, cleared, fired
    sClock,           \* milliseconds since the call started
    sResult,          \* what the call resolved with: none, null, parsed
    \* one wait for an image's load against the clock
    lSite,            \* TRUE in the site-specific protocol
    lImage,           \* the element: none, loading, loaded, broken
    lPc,              \* the caller's position: idle, waiting, done
    lTimer,           \* the cap timer: none, armed, cleared, fired
    lClock,           \* milliseconds since the wait began
    lChecks           \* how many times the size check has run

ocrCallVars == <<sPc, sTimer, sClock, sResult>>
waitVars == <<lSite, lImage, lPc, lTimer, lClock, lChecks>>
callVars == <<ocrCallVars, waitVars>>

scriptVars ==
    <<generation, isPixiv, kind, present, complete, href,
      processedImages, processingQueue, isProcessing, failedImages,
      observedImages, currentUrl, isPageChanging, imageObserver,
      handlersInstalled, initPc, scanList, pending, drainPc, drainElem,
      running, ocrSubmissions, ocrResult, overlayInvoked, ocrServer, faulted,
      extractNull, originalPixivSrc, extractLog, imageData, ocrBody, settingsLang,
      targetLanguage, el>>

contentVars == <<scriptVars, callVars>>

fetchVars ==
    <<fWebp, fMsg, worker, fPc, imageBlob, successUrl, fAttempts, fResponse, iPc, iResponse,
      requests, relayMessages>>

offscreenVars ==
    <<oPc, offscreenCreating, oPromise, oWaitOn, docState, docOwner, replies>>

relayVars == <<canvas, rPc, rTimer, rDecode, rResult, rPayload>>

backgroundVars == <<fetchVars, offscreenVars, relayVars>>

vars == <<contentVars, backgroundVars>>

\* ---------------------------------------------------------------- helpers
RECURSIVE SetToSeq(_)
SetToSeq(S) ==
    IF S = {} THEN <<>>
    ELSE LET x == CHOOSE y \in S : \A z \in S : y <= z
         IN <<x>> \o SetToSeq(S \ {x})

Occurrences(q, h) == Cardinality({i \in 1..Len(q) : q[i] = h})

NaturalWidth(h) == IF complete[h] THEN kind[h].w ELSE 0
NaturalHeight(h) == IF complete[h] THEN kind[h].h ELSE 0

\* img.naturalWidth || img.width: the layout size stands in while the natural
\* size is 0.
WidthOrLayout(h) == IF NaturalWidth(h) # 0 THEN NaturalWidth(h) ELSE kind[h].lw
HeightOrLayout(h) == IF NaturalHeight(h) # 0 THEN NaturalHeight(h) ELSE kind[h].lh

\* The scan and handleNewImage wait for the load before the size check.
NeedsLoadWait(h) ==
    IF generation = "chome" /\ isPixiv
    THEN ~complete[h] \/ NaturalWidth(h) = 0
    ELSE ~complete[h]

\* The site-specific protocol looks only at images served by the hostile host.
SourceRejected(h) == isPixiv /\ ~IncludesPximg(kind[h].src)

\* The size floor of admission.
SizeAdmitsEither(h) ==
    IF isPixiv \/ generation = "root"
    THEN WidthOrLayout(h) > MinSize \/ HeightOrLayout(h) > MinSize
    ELSE NaturalWidth(h) > MinSize \/ NaturalHeight(h) > MinSize

SizeAdmits(h) ==
    IF isPixiv \/ generation = "root"
    THEN WidthOrLayout(h) > MinSize /\ HeightOrLayout(h) > MinSize
    ELSE NaturalWidth(h) > MinSize /\ NaturalHeight(h) > MinSize

\* The load event of an image runs the continuations of everything that waits
\* for it (the listeners of one event, each followed by its microtasks) before
\* any other task: while such a continuation is due, no other task starts.
LoadWakeDue ==
    \E h \in Images :
        /\ complete[h]
        /\ \/ pending[h] > 0
           \/ initPc = "scanwait" /\ Head(scanList) = h

TaskMayStart == running = 0 /\ ~LoadWakeDue

FreeDrains == {d \in DrainIds : drainPc[d] = "idle"}

\* ------------------------------------------------------------ processQueue
\* The guard of processQueue on queue q.
ProcessQueueIgnoresFlag(q) == Len(q) = 0

ProcessQueueReturnsEarly(q) == isProcessing \/ Len(q) = 0

\* A call of processQueue when the queue is q: either it returns at once, or a
\* new drain loop starts and is on the stack.
ProcessQueue(q) ==
    IF ProcessQueueReturnsEarly(q) \/ FreeDrains = {}
    THEN UNCHANGED <<isProcessing, drainPc, running>>
    ELSE LET d == CHOOSE x \in FreeDrains : \A y \in FreeDrains : x <= y
         IN /\ isProcessing' = TRUE
            /\ drainPc' = [drainPc EXCEPT ![d] = "loop"]
            /\ running' = d

\* Payloads: the data URL of a same-context draw of element e, the relay's
\* answer for e, or the re-encoded bytes the background fetched for e.
NoData == [from |-> "none", of |-> 0]
Direct(e) == [from |-> "direct", of |-> e]
Relayed(e) == [from |-> "relay", of |-> e]
Fetched(e) == [from |-> "fetch", of |-> e]
NoBody == [image |-> NoData, target_lang |-> ""]

\* Entries of extractLog: a same-context draw, a message sent to the
\* background, its answer, the decode of fetched bytes.
Draw(ok) == [op |-> "draw", ok |-> ok, url |-> NoSrc]
Send(type, url) == [op |-> type, ok |-> TRUE, url |-> url]
Reply(ok) == [op |-> "reply", ok |-> ok, url |-> NoSrc]
Decode(ok) == [op |-> "decode", ok |-> ok, url |-> NoSrc]

\* The item of drain d is over: nothing of it is held any longer.
ClearTrace(d) ==
    /\ extractLog' = [extractLog EXCEPT ![d] = <<>>]
    /\ imageData' = [imageData EXCEPT ![d] = NoData]
    /\ ocrBody' = [ocrBody EXCEPT ![d] = NoBody]

\* A loop that would return at the epoch check instead of breaking out of the
\* while loop: the worker flag stays set.
ReturnToLoopKeepsFlag(d) ==
    /\ ClearTrace(d)
    /\ IF isPageChanging
       THEN /\ drainPc' = [drainPc EXCEPT ![d] = "idle"]
            /\ drainElem' = [drainElem EXCEPT ![d] = 0]
            /\ running' = 0
            /\ UNCHANGED isProcessing
       ELSE /\ drainPc' = [drainPc EXCEPT ![d] = "loop"]
            /\ drainElem' = [drainElem EXCEPT ![d] = 0]
            /\ running' = d
            /\ UNCHANGED isProcessing

\* After processImage has returned to the drain loop d: the epoch check that
\* ends the loop, else the next iteration.
ReturnToLoop(d) ==
    /\ ClearTrace(d)
    /\ IF isPageChanging
       THEN /\ isProcessing' = FALSE
            /\ drainPc' = [drainPc EXCEPT ![d] = "idle"]
            /\ drainElem' = [drainElem EXCEPT ![d] = 0]
            /\ running' = 0
       ELSE /\ drainPc' = [drainPc EXCEPT ![d] = "loop"]
            /\ drainElem' = [drainElem EXCEPT ![d] = 0]
            /\ running' = d
            /\ UNCHANGED isProcessing

\* What the environment owns or what only admission and navigation change.
settingVars == <<ocrServer, settingsLang, targetLanguage>>
pageVars ==
    <<generation, isPixiv, kind, present, complete, href, settingVars, backgroundVars, callVars>>
traceVars == <<extractLog, imageData, ocrBody>>
admissionVars == <<observedImages, originalPixivSrc, pending, initPc, scanList>>
epochVars == <<currentUrl, isPageChanging, imageObserver, handlersInstalled>>
ghostVars == <<ocrSubmissions, ocrResult, overlayInvoked, faulted, extractNull>>

\* ------------------------------------------------------------ processImage
\* The guards at the top of processImage.
ProcessImageIgnoresProcessed(e) == isPageChanging

ProcessImageSkips(e) == isPageChanging \/ e \in processedImages

\* element.classList.add / remove of 'ocr-processing'.
SetProcessing(e, on) == [el EXCEPT ![e].processing = on]

\* processingQueue.pop(): the newest entry instead of the oldest.
Pop(q) == [item |-> q[Len(q)], rest |-> SubSeq(q, 1, Len(q) - 1)]

\* processingQueue.shift(): the head and what stays queued.
Shift(q) == [item |-> Head(q), rest |-> Tail(q)]

\* The drain loop d at the head of its while loop: pop the queue head and start
\* processImage on it, or leave the loop and clear the worker flag.
DrainLoop(d) ==
    /\ running = d
    /\ drainPc[d] = "loop"
    /\ IF Len(processingQueue) > 0 /\ ~isPageChanging
       THEN LET e == Shift(processingQueue).item
            IN /\ processingQueue' = Shift(processingQueue).rest
               /\ IF ProcessImageSkips(e)
                  THEN /\ ReturnToLoop(d)
                       /\ UNCHANGED <<processedImages, el>>
                  ELSE /\ processedImages' = processedImages \cup {e}
                       /\ el' = SetProcessing(e, TRUE)
                       /\ drainPc' = [drainPc EXCEPT ![d] = "extract"]
                       /\ drainElem' = [drainElem EXCEPT ![d] = e]
                       /\ UNCHANGED <<isProcessing, running, traceVars>>
       ELSE /\ isProcessing' = FALSE
            /\ drainPc' = [drainPc EXCEPT ![d] = "idle"]
            /\ running' = 0
            /\ UNCHANGED <<processingQueue, processedImages, drainElem, traceVars, el>>
    /\ UNCHANGED <<pageVars, admissionVars, epochVars, ghostVars, failedImages>>

\* sendToOCRServer returns null without a request once the epoch has tripped.
SendToOcrSkips == isPageChanging

\* A null extraction counted as failed whatever the epoch.
ExtractNullAlwaysFails == TRUE

\* Whether an item whose extraction gave null is counted as failed.
ExtractNullFails == IF generation = "chome" THEN ~isPageChanging ELSE TRUE

\* The language sendToOCRServer puts into the body of its request.
BodyLanguageFromSettings == settingsLang

BodyLanguage == IF generation = "chome" THEN targetLanguage ELSE ""

\* processImage after extractImageData has resolved for drain d with data
\* (NoData: null), log being what the extraction did: mark the failure, or
\* begin the OCR submission with that payload.
AfterExtract(d, data, log) ==
    LET e == drainElem[d]
    IN /\ extractNull' = IF data = NoData THEN extractNull \cup {e} ELSE extractNull
       /\ IF data = NoData \/ isPageChanging
          THEN /\ failedImages' = IF data = NoData /\ ExtractNullFails
                                  THEN failedImages \cup {e} ELSE failedImages
               /\ el' = SetProcessing(e, FALSE)
               /\ ReturnToLoop(d)
               /\ UNCHANGED ocrSubmissions
          ELSE IF SendToOcrSkips
          THEN /\ el' = SetProcessing(e, FALSE)
               /\ ReturnToLoop(d)
               /\ UNCHANGED <<failedImages, ocrSubmissions>>
          ELSE /\ ocrSubmissions' = [ocrSubmissions EXCEPT ![e] = @ + 1]
               /\ drainPc' = [drainPc EXCEPT ![d] = "wait_ocr"]
               /\ running' = 0
               /\ extractLog' = [extractLog EXCEPT ![d] = log]
               /\ imageData' = [imageData EXCEPT ![d] = data]
               /\ ocrBody' = [ocrBody EXCEPT ![d] =
                                 [image |-> data, target_lang |-> BodyLanguage]]
               /\ el' = IF generation = "root" THEN SetProcessing(e, FALSE) ELSE el
               /\ UNCHANGED <<failedImages, isProcessing, drainElem>>

\* The source extractImageData works with: the recorded canonical URI when
\* there is one, else the element's own.
ResolvedSrc(e) ==
    IF generation = "chome" /\ originalPixivSrc[e] # NoSrc
    THEN originalPixivSrc[e] ELSE kind[e].src

LiveSrc(e) == kind[e].src

\* extractImageData skips the same-context draw for a hostile-host source.
UsesRelayNever(e) == FALSE

UsesRelayAlways(e) == TRUE

UsesRelayFirst(e) == generation = "chome" /\ IncludesPximg(ResolvedSrc(e))

\* The url of the message extractImageData sends for e.
MessageUrlLive(e) == LiveSrc(e)

MessageUrl(e) == ResolvedSrc(e)

\* extractImageData's size floor (an image narrower or lower than it is null).
TooSmallToExtract(e) == WidthOrLayout(e) < MinSize \/ HeightOrLayout(e) < MinSize

\* The drain suspends at pc with log; nothing else of the item changes.
Suspend(d, pc, log) ==
    /\ drainPc' = [drainPc EXCEPT ![d] = pc]
    /\ running' = 0
    /\ extractLog' = [extractLog EXCEPT ![d] = log]
    /\ UNCHANGED <<failedImages, ocrSubmissions, isProcessing, drainElem,
                   imageData, ocrBody, el, extractNull>>

\* The synchronous start of extractImageData for the element of drain d: null
\* at once, a message to the background (the await suspends the loop), or the
\* direct draw, which succeeds (drawOk) or throws on a tainted canvas.
ExtractStart(d, drawOk) ==
    /\ running = d
    /\ drainPc[d] = "extract"
    /\ LET e == drainElem[d]
       IN IF isPageChanging \/ TooSmallToExtract(e)
          THEN AfterExtract(d, NoData, <<>>)
          ELSE IF UsesRelayFirst(e)
          THEN Suspend(d, "wait_offscreen",
                       <<Send("FETCH_IMAGE_OFFSCREEN", MessageUrl(e))>>)
          ELSE IF drawOk
          THEN AfterExtract(d, Direct(e), <<Draw(TRUE)>>)
          ELSE Suspend(d, "wait_fetch",
                       <<Draw(FALSE), Send("FETCH_IMAGE", MessageUrl(e))>>)
    /\ UNCHANGED <<pageVars, admissionVars, epochVars, processedImages,
                   processingQueue, ocrResult, overlayInvoked, faulted>>

\* The answer to FETCH_IMAGE_OFFSCREEN arrives: the relay's payload, or on
\* failure the last-resort direct draw.
OffscreenReply(d, ok, drawOk) ==
    /\ TaskMayStart
    /\ drainPc[d] = "wait_offscreen"
    /\ LET e == drainElem[d]
       IN IF ok
          THEN AfterExtract(d, Relayed(e), Append(extractLog[d], Reply(TRUE)))
          ELSE AfterExtract(d, IF drawOk THEN Direct(e) ELSE NoData,
                            extractLog[d] \o <<Reply(FALSE), Draw(drawOk)>>)
    /\ UNCHANGED <<pageVars, admissionVars, epochVars, processedImages,
                   processingQueue, ocrResult, overlayInvoked, faulted>>

\* The answer to FETCH_IMAGE arrives: decode the fetched bytes, or null.
FetchReply(d, ok) ==
    /\ TaskMayStart
    /\ drainPc[d] = "wait_fetch"
    /\ IF ok
       THEN /\ drainPc' = [drainPc EXCEPT ![d] = "wait_decode"]
            /\ extractLog' = [extractLog EXCEPT ![d] = Append(@, Reply(TRUE))]
            /\ UNCHANGED <<failedImages, ocrSubmissions, isProcessing, drainElem,
                           running, imageData, ocrBody, el, extractNull>>
       ELSE AfterExtract(d, NoData, Append(extractLog[d], Reply(FALSE)))
    /\ UNCHANGED <<pageVars, admissionVars, epochVars, processedImages,
                   processingQueue, ocrResult, overlayInvoked, faulted>>

\* The decode of the fetched bytes ends: onload with a clean draw (ok), or a
\* draw fault, onerror or the 10 s timer.
DecodeDone(d, ok) ==
    /\ TaskMayStart
    /\ drainPc[d] = "wait_decode"
    /\ AfterExtract(d, IF ok THEN Fetched(drainElem[d]) ELSE NoData,
                    Append(extractLog[d], Decode(ok)))
    /\ UNCHANGED <<pageVars, admissionVars, epochVars, processedImages,
                   processingQueue, ocrResult, overlayInvoked, faulted>>

\* What processImage does with the OCR answer, per generation:
\* "failed", "skip" (no text, not a failure), "overlay", or "throws" when
\* mapping the blocks dereferences a null entry.
OcrOutcomeChome(res) ==
    IF res \in {"null", "nofield"} THEN "failed"
    ELSE IF res = "empty" THEN "skip"
    ELSE IF res = "nullblock" THEN "throws"
    ELSE "overlay"

OcrOutcomeRoot(res) ==
    IF res \in {"null", "nofield", "empty"} THEN "failed"
    ELSE IF res = "nullblock" THEN "throws"
    ELSE "overlay"

OcrOutcome(res) ==
    IF generation = "chome" THEN OcrOutcomeChome(res) ELSE OcrOutcomeRoot(res)

\* The answers the server of the run can give.
ServerAnswers ==
    IF ocrServer = "sound" THEN OcrResults ELSE OcrResults \cup FaultyResults

\* sendToOCRServer resolves for drain d with res (null: a non-2xx status, a
\* transport error or the 120 s abort).  A fault thrown by processImage is
\* caught by processQueue, which marks the item failed and goes on.
OcrReply(d, res) ==
    /\ TaskMayStart
    /\ drainPc[d] = "wait_ocr"
    /\ res \in ServerAnswers
    /\ LET e == drainElem[d]
       IN /\ ocrResult' = [ocrResult EXCEPT ![e] = res]
          /\ IF isPageChanging
             THEN /\ el' = SetProcessing(e, FALSE)
                  /\ ReturnToLoop(d)
                  /\ UNCHANGED <<failedImages, overlayInvoked, faulted>>
             ELSE IF OcrOutcome(res) = "failed"
             THEN /\ failedImages' = failedImages \cup {e}
                  /\ el' = SetProcessing(e, FALSE)
                  /\ ReturnToLoop(d)
                  /\ UNCHANGED <<overlayInvoked, faulted>>
             ELSE IF OcrOutcome(res) = "throws"
             THEN /\ faulted' = faulted \cup {e}
                  /\ failedImages' = failedImages \cup {e}
                  /\ ReturnToLoop(d)
                  /\ UNCHANGED <<overlayInvoked, el>>
             ELSE IF OcrOutcome(res) = "skip"
             THEN /\ el' = SetProcessing(e, FALSE)
                  /\ ReturnToLoop(d)
                  /\ UNCHANGED <<failedImages, overlayInvoked, faulted>>
             ELSE /\ overlayInvoked' = overlayInvoked \cup {e}
                  /\ drainPc' = [drainPc EXCEPT ![d] = "wait_overlay"]
                  /\ UNCHANGED <<failedImages, faulted, isProcessing, drainElem,
                                 running, traceVars, el>>
    /\ UNCHANGED <<pageVars, admissionVars, epochVars, processedImages,
                   processingQueue, ocrSubmissions, extractNull>>

\* A write to the src attribute queues a mutation record for the image
\* watcher while the watcher observes the document.
Recorded == imageObserver = "observing"

\* The element after the click listener has run once on it; without a
\* listener a click changes nothing.
ClickResult(e) ==
    IF ~e.listener THEN e
    ELSE IF e.showing = "translated"
    THEN [e EXCEPT !.src = e.original, !.showing = "original",
                   !.record = @ \/ Recorded]
    ELSE [e EXCEPT !.src = e.translated, !.showing = "translated",
                   !.record = @ \/ Recorded]

\* The toggle set-up at the end of onload: the first overlay of an element
\* without data-original keeps its src there and adds the click listener;
\* every overlay stores the new image and shows it.
Overlaid(e) ==
    LET first == e.original = ""
    IN [src |-> "overlay",
        original |-> IF first THEN e.src ELSE e.original,
        translated |-> "overlay",
        showing |-> "translated",
        listener |-> e.listener \/ first,
        processing |-> e.processing,
        record |-> e.record \/ Recorded]

\* The image replaceTextInImage loads from the payload settles.  onerror, or
\* an onload that runs through, resolves the promise and processImage returns.
\* An onload that dereferences the missing bbox of a block throws inside the
\* event handler: the promise is never settled and the drain never resumes.
OverlayDone(d, loaded) ==
    /\ TaskMayStart
    /\ drainPc[d] = "wait_overlay"
    /\ IF loaded /\ ocrResult[drainElem[d]] = "nobbox"
       THEN /\ drainPc' = [drainPc EXCEPT ![d] = "hung"]
            /\ faulted' = faulted \cup {drainElem[d]}
            /\ UNCHANGED <<isProcessing, drainElem, running, traceVars, el>>
       ELSE /\ el' = [el EXCEPT ![drainElem[d]] =
                        [(IF loaded THEN Overlaid(@) ELSE @) EXCEPT !.processing = FALSE]]
            /\ ReturnToLoop(d)
            /\ UNCHANGED faulted
    /\ UNCHANGED <<pageVars, admissionVars, epochVars, ocrSubmissions, ocrResult,
                   overlayInvoked, processedImages, processingQueue, failedImages,
                   extractNull>>

\* ------------------------------------------------------------ canonical URI
\* A path segment the resize proxy's pattern \d+x\d+[^\/]* matches.
IsSizeSegment(p) == p \in {"250x250_80_a2", "360x360_70"}

\* src.includes('/c/')
IncludesC(u) == \E i \in 2..(Len(u) - 1) : u[i] = "c"

\* src.replace(/\/c\/\d+x\d+[^\/]*\//, '/'): the first '/c/<W>x<H>.../' goes.
ProxyMatches(u) ==
    {i \in 2..(Len(u) - 2) : u[i] = "c" /\ IsSizeSegment(u[i + 1])}

StripProxy(u) ==
    IF ProxyMatches(u) = {} THEN u
    ELSE LET i == CHOOSE x \in ProxyMatches(u) : \A y \in ProxyMatches(u) : x <= y
         IN SubSeq(u, 1, i - 1) \o SubSeq(u, i + 2, Len(u))

\* s.replace(/_square\d+\./, '_master1200.') and the same for _custom: the
\* first marker of that name becomes '_master1200'.
MarkerMatches(u, markers) == {i \in 1..(Len(u) - 1) : u[i] \in markers}

ReplaceMarker(u, markers) ==
    IF MarkerMatches(u, markers) = {} THEN u
    ELSE LET i == CHOOSE x \in MarkerMatches(u, markers) :
                      \A y \in MarkerMatches(u, markers) : x <= y
         IN [u EXCEPT ![i] = "_master1200"]

\* The canonical original URI the site-specific protocol derives from src.
OriginalSrc(u) ==
    ReplaceMarker(ReplaceMarker(IF IncludesC(u) THEN StripProxy(u) ELSE u,
                                {"_square1200"}),
                  {"_custom1200"})

\* img.dataset.originalPixivSrc = originalSrc, on the site-specific path.
RecordCanonical(h) ==
    IF isPixiv /\ generation = "chome"
    THEN [originalPixivSrc EXCEPT ![h] = OriginalSrc(kind[h].src)]
    ELSE originalPixivSrc

\* ---------------------------------------------------------------- admission
drainVars == <<drainPc, drainElem, running, isProcessing>>
itemVars == <<processedImages, failedImages>>

\* handleNewImage's guard: the element is already observed or processed.
\* A test keyed by the src string instead of the element: an element whose src
\* was rewritten looks new.
AlreadySeenBySrc(h) ==
    (h \in observedImages \/ h \in processedImages) /\ el[h].src = "page"

AlreadySeen(h) == h \in observedImages \/ h \in processedImages

\* Admission in handleNewImage once the load wait is over: the size floor, then
\* add to observedImages, push, and call processQueue.
AdmitWithoutDrain(h) ==
    IF SizeAdmits(h)
    THEN /\ observedImages' = observedImages \cup {h}
         /\ originalPixivSrc' = RecordCanonical(h)
         /\ processingQueue' = Append(processingQueue, h)
         /\ UNCHANGED drainVars
    ELSE UNCHANGED <<observedImages, originalPixivSrc, processingQueue, drainVars>>

AdmitAndDrain(h) ==
    IF SizeAdmits(h)
    THEN /\ observedImages' = observedImages \cup {h}
         /\ originalPixivSrc' = RecordCanonical(h)
         /\ processingQueue' = Append(processingQueue, h)
         /\ ProcessQueue(Append(processingQueue, h))
         /\ UNCHANGED drainElem
    ELSE UNCHANGED <<observedImages, originalPixivSrc, processingQueue, drainVars>>

\* A call handleNewImage(h) up to its first suspension.
HandleNewImage(h) ==
    IF AlreadySeen(h) \/ SourceRejected(h)
    THEN UNCHANGED <<observedImages, originalPixivSrc, processingQueue, drainVars, pending>>
    ELSE IF NeedsLoadWait(h)
    THEN /\ pending[h] < MaxPending
         /\ pending' = [pending EXCEPT ![h] = @ + 1]
         /\ UNCHANGED <<observedImages, originalPixivSrc, processingQueue, drainVars>>
    ELSE /\ AdmitAndDrain(h)
         /\ UNCHANGED pending

\* The image watcher reports an img element added to the document.  Before the
\* watcher is installed, or after it is disconnected, nobody is told.
ImageAdded(h) ==
    /\ TaskMayStart
    /\ h \notin present
    /\ present' = present \cup {h}
    /\ IF imageObserver = "observing"
       THEN HandleNewImage(h)
       ELSE UNCHANGED <<observedImages, originalPixivSrc, processingQueue, drainVars, pending>>
    /\ UNCHANGED <<generation, isPixiv, kind, complete, href, epochVars,
                   itemVars, ghostVars, traceVars, initPc, scanList, settingVars, el, backgroundVars, callVars>>

\* The image watcher reports a src, srcset or data-src attribute change.
ImageAttrChanged(h) ==
    /\ TaskMayStart
    /\ h \in present
    /\ imageObserver = "observing"
    /\ HandleNewImage(h)
    /\ UNCHANGED <<el, pageVars, epochVars, itemVars, ghostVars, traceVars, initPc, scanList>>

\* The image watcher is given the record of a src written by an overlay or a
\* toggle: the attribute branch of its callback, then handleNewImage.
SrcMutationObserved(h) ==
    /\ TaskMayStart
    /\ el[h].record
    /\ imageObserver = "observing"
    /\ el' = [el EXCEPT ![h].record = FALSE]
    /\ IF AlreadySeen(h)
       THEN UNCHANGED <<observedImages, originalPixivSrc, processingQueue, drainVars,
                        pending>>
       ELSE HandleNewImage(h)
    /\ UNCHANGED <<pageVars, epochVars, itemVars, ghostVars, traceVars, initPc, scanList>>

\* A handleNewImage call that waited for the load goes on: the load event or
\* its cap timer (2 s generic, 5 s site-specific) has fired.
HandleNewImageResume(h) ==
    /\ running = 0
    /\ pending[h] > 0
    /\ pending' = [pending EXCEPT ![h] = @ - 1]
    /\ AdmitAndDrain(h)
    /\ UNCHANGED <<el, pageVars, epochVars, itemVars, ghostVars, traceVars, initPc, scanList>>

\* The image finishes loading.
ImageLoad(h) ==
    /\ TaskMayStart
    /\ ~complete[h]
    /\ complete' = [complete EXCEPT ![h] = TRUE]
    /\ UNCHANGED <<generation, isPixiv, kind, present, href, epochVars,
                   itemVars, ghostVars, traceVars, admissionVars, processingQueue, drainVars,
                   settingVars, el, backgroundVars, callVars>>

\* --------------------------------------------------------------------- init
\* A scan that queues an image without recording it as observed.
ScanAdmitUnobserved(h) ==
    IF SizeAdmits(h)
    THEN /\ originalPixivSrc' = RecordCanonical(h)
         /\ processingQueue' = Append(processingQueue, h)
         /\ UNCHANGED observedImages
    ELSE UNCHANGED <<observedImages, originalPixivSrc, processingQueue>>

\* A scan that records the image as observed before the size check.
ScanAdmitObservesFirst(h) ==
    /\ observedImages' = observedImages \cup {h}
    /\ IF SizeAdmits(h)
       THEN /\ originalPixivSrc' = RecordCanonical(h)
            /\ processingQueue' = Append(processingQueue, h)
       ELSE UNCHANGED <<originalPixivSrc, processingQueue>>

\* The scan's admission (queueAllImages, handlePixivImages): no processQueue.
ScanAdmit(h) ==
    IF SizeAdmits(h)
    THEN /\ observedImages' = observedImages \cup {h}
         /\ originalPixivSrc' = RecordCanonical(h)
         /\ processingQueue' = Append(processingQueue, h)
    ELSE UNCHANGED <<observedImages, originalPixivSrc, processingQueue>>

\* The scan looks at the next image of its snapshot.
ScanStep ==
    /\ TaskMayStart
    /\ initPc = "scan"
    /\ scanList # <<>>
    /\ LET h == Head(scanList)
       IN IF SourceRejected(h)
          THEN /\ scanList' = Tail(scanList)
               /\ UNCHANGED <<observedImages, originalPixivSrc, processingQueue, initPc>>
          ELSE IF NeedsLoadWait(h)
          THEN /\ initPc' = "scanwait"
               /\ UNCHANGED <<observedImages, originalPixivSrc, processingQueue, scanList>>
          ELSE /\ ScanAdmit(h)
               /\ scanList' = Tail(scanList)
               /\ UNCHANGED initPc
    /\ UNCHANGED <<el, pageVars, epochVars, itemVars, ghostVars, traceVars, pending, drainVars>>

\* The scan's wait for a load ends (load event or cap timer).
ScanResume ==
    /\ running = 0
    /\ initPc = "scanwait"
    /\ ScanAdmit(Head(scanList))
    /\ scanList' = Tail(scanList)
    /\ initPc' = "scan"
    /\ UNCHANGED <<el, pageVars, epochVars, itemVars, ghostVars, traceVars, pending, drainVars>>

\* The end of init: the image watcher (not in the root generation) and the
\* navigation handlers are installed, and processQueue is called.
InitFinish ==
    /\ TaskMayStart
    /\ initPc = "scan"
    /\ scanList = <<>>
    /\ initPc' = "done"
    /\ imageObserver' = IF generation = "chome" THEN "observing" ELSE imageObserver
    /\ handlersInstalled' = TRUE
    /\ ProcessQueue(processingQueue)
    /\ UNCHANGED <<el, pageVars, itemVars, ghostVars, traceVars, observedImages,
                   originalPixivSrc, pending, scanList, processingQueue, drainElem,
                   currentUrl, isPageChanging>>

\* --------------------------------------------------------------- navigation
\* The page changes its URL without unloading (history.pushState).
Navigate ==
    /\ TaskMayStart
    /\ href < MaxNav
    /\ href' = href + 1
    /\ UNCHANGED <<generation, isPixiv, kind, present, complete, epochVars,
                   itemVars, ghostVars, traceVars, admissionVars, processingQueue, drainVars,
                   settingVars, el, backgroundVars, callVars>>

\* The mutation watcher of setupPageChangeDetection sees a changed URL.
UrlChangeObserved ==
    /\ TaskMayStart
    /\ handlersInstalled
    /\ href # currentUrl
    /\ isPageChanging' = TRUE
    /\ processingQueue' = <<>>
    /\ imageObserver' = IF imageObserver = "null" THEN imageObserver ELSE "null"
    /\ currentUrl' = href
    /\ UNCHANGED <<el, pageVars, itemVars, ghostVars, traceVars, admissionVars, drainVars,
                   handlersInstalled>>

\* What the beforeunload and popstate handlers do.
UnloadHandlerKeepsQueue ==
    /\ isPageChanging' = TRUE
    /\ imageObserver' = IF imageObserver = "observing" THEN "disconnected"
                        ELSE imageObserver
    /\ UNCHANGED <<el, pageVars, itemVars, ghostVars, traceVars, admissionVars, drainVars,
                   handlersInstalled, currentUrl, processingQueue>>

\* A handler that would flip the flag instead of setting it.
UnloadHandlerToggles ==
    /\ isPageChanging' = ~isPageChanging
    /\ processingQueue' = <<>>
    /\ imageObserver' = IF imageObserver = "observing" THEN "disconnected"
                        ELSE imageObserver
    /\ UNCHANGED <<el, pageVars, itemVars, ghostVars, traceVars, admissionVars, drainVars,
                   handlersInstalled, currentUrl>>

UnloadHandler ==
    /\ isPageChanging' = TRUE
    /\ processingQueue' = <<>>
    /\ imageObserver' = IF imageObserver = "observing" THEN "disconnected"
                        ELSE imageObserver
    /\ UNCHANGED <<el, pageVars, itemVars, ghostVars, traceVars, admissionVars, drainVars,
                   handlersInstalled, currentUrl>>

BeforeUnload ==
    /\ TaskMayStart
    /\ handlersInstalled
    /\ UnloadHandler

PopState ==
    /\ TaskMayStart
    /\ handlersInstalled
    /\ generation = "chome"
    /\ UnloadHandler

\* ------------------------------------------------------------ the user
\* A listener that would leave the new language to the next page load.
LanguageChangedNeedsRestart(l) ==
    /\ TaskMayStart
    /\ l # settingsLang
    /\ settingsLang' = l
    /\ UNCHANGED <<targetLanguage, generation, isPixiv, kind, present, complete,
                   href, ocrServer, el, backgroundVars, callVars, admissionVars, epochVars,
                   ghostVars, traceVars, itemVars, drainVars, processingQueue>>

\* chrome.storage.onChanged with changes.targetLang: the stored value is now l
\* and the listener assigns it to targetLanguage.
LanguageChanged(l) ==
    /\ TaskMayStart
    /\ l # settingsLang
    /\ settingsLang' = l
    /\ targetLanguage' = l
    /\ UNCHANGED <<generation, isPixiv, kind, present, complete, href, ocrServer,
                   el, backgroundVars, callVars, admissionVars, epochVars, ghostVars,
                   traceVars, itemVars, drainVars, processingQueue>>

\* The user clicks image h: the browser runs the click listeners it has.
Click(h) ==
    /\ TaskMayStart
    /\ h \in present
    /\ el' = [el EXCEPT ![h] = ClickResult(@)]
    /\ UNCHANGED <<pageVars, admissionVars, epochVars, ghostVars, traceVars,
                   itemVars, drainVars, processingQueue>>

\* ------------------------------------- background: FETCH_IMAGE_OFFSCREEN
Variants == {"orig", "jpg", "png"}
FetchOutcomes == {"error", "status", "empty", "bytes"}

contentAndRest == <<contentVars, offscreenVars, relayVars>>

\* The condition under which a fallback variant is fetched: no Blob yet (a Blob
\* of size 0 is an object, hence truthy) and a URL with the '_webp/' segment.
TriesFallback == imageBlob = "null" /\ fWebp

\* The service worker scripts: the present background.js, and the earlier
\* background that handles FETCH_IMAGE alone.
Workers == {"background.js", "part_000"}
Messages == [pximg : BOOLEAN, referer : {"page", ""}]
FixedReferer == "https://www.pixiv.net/"

\* Fallback attempts that would go out with the options fetch() defaults to.
FetchInitBareFallback(type, v) ==
    [method |-> "GET", mode |-> "cors",
     credentials |-> IF v = "orig" THEN "omit" ELSE "same-origin",
     cache |-> IF v = "orig" THEN "no-cache" ELSE "default"]

\* The second argument of fetch() at the call site of handler type, variant v;
\* the earlier background passes { headers } alone and fetch() fills in its
\* defaults.
FetchInit(type, v) ==
    IF worker = "part_000"
      THEN [method |-> "GET", mode |-> "cors", credentials |-> "same-origin",
            cache |-> "default"]
      ELSE [method |-> "GET", mode |-> "cors", credentials |-> "omit",
            cache |-> "no-cache"]

\* The earlier background without its override for pximg.net.
EarlyHeadersFromMessage(msg) ==
    [Referer |-> IF msg.referer # "" THEN msg.referer ELSE "url"]

\* The headers of the earlier background: message.referer || message.url,
\* replaced by the fixed value when the url includes 'pximg.net'.
EarlyHeaders(msg) ==
    [Referer |-> IF msg.pximg THEN FixedReferer
                 ELSE IF msg.referer # "" THEN msg.referer ELSE "url"]

\* The headers the call site passes to fetch(): background.js passes none.
FetchHeaders(msg) ==
    IF worker = "part_000" THEN EarlyHeaders(msg) ELSE [Referer |-> ""]

\* The declarative net request rule shipped with background.js: a request to
\* the hostile host leaves with the fixed referrer.
RefererRule(pximg, referer) == IF pximg THEN FixedReferer ELSE referer

\* The Referer header a request of the handler leaves with.
SentReferer(msg) ==
    IF worker = "background.js"
      THEN RefererRule(msg.pximg, FetchHeaders(msg).Referer)
      ELSE FetchHeaders(msg).Referer

Request(type, v) ==
    [type |-> type, variant |-> v, init |-> FetchInit(type, v),
     pximg |-> fMsg.pximg, referer |-> SentReferer(fMsg)]

imageFetchVars == <<iPc, iResponse>>

\* The handler issues the fetch of variant v.
FetchSend(v) ==
    /\ fPc = v
    /\ IF v = "orig" \/ TriesFallback
       THEN /\ fAttempts' = Append(fAttempts, <<v, "sent">>)
            /\ requests' = requests \cup {Request("FETCH_IMAGE_OFFSCREEN", v)}
            /\ fPc' = "await_" \o v
       ELSE /\ fPc' = IF v = "jpg" THEN "png" ELSE "check"
            /\ UNCHANGED <<fAttempts, requests>>
    /\ UNCHANGED <<fWebp, fMsg, worker, imageBlob, successUrl, fResponse, imageFetchVars,
                   relayMessages, contentAndRest>>

\* The fetch of variant v ends: a network error, a non-2xx status, or a 2xx
\* response whose body is empty or holds bytes.  Only a 2xx response sets
\* imageBlob and successUrl.
FetchAnswer(v, outcome) ==
    /\ fPc = "await_" \o v
    /\ fAttempts' = [fAttempts EXCEPT ![Len(fAttempts)] = <<v, outcome>>]
    /\ IF outcome \in {"empty", "bytes"}
       THEN imageBlob' = outcome /\ successUrl' = v
       ELSE UNCHANGED <<imageBlob, successUrl>>
    /\ fPc' = IF v = "orig" THEN "jpg" ELSE IF v = "jpg" THEN "png" ELSE "check"
    /\ UNCHANGED <<fWebp, fMsg, worker, fResponse, imageFetchVars, requests, relayMessages,
                   contentAndRest>>

\* The fetch phase fails when there is no Blob or the Blob is empty.
FetchPhaseFails == imageBlob = "null" \/ imageBlob = "empty"

\* The check that ends the fetch phase: a failure response, or on to FileReader.
FetchCheck ==
    /\ fPc = "check"
    /\ IF FetchPhaseFails
       THEN fPc' = "done" /\ fResponse' = "failure"
       ELSE fPc' = "reading" /\ UNCHANGED fResponse
    /\ UNCHANGED <<fWebp, fMsg, worker, imageBlob, successUrl, fAttempts, imageFetchVars, requests,
                   relayMessages, contentAndRest>>

\* FileReader ends: onerror answers with a failure, onloadend starts its async
\* callback, which first awaits setupOffscreenDocument().
ReaderEnds(ok) ==
    /\ fPc = "reading"
    /\ IF ok
       THEN fPc' = "setup" /\ UNCHANGED fResponse
       ELSE fPc' = "done" /\ fResponse' = "failure"
    /\ UNCHANGED <<fWebp, fMsg, worker, imageBlob, successUrl, fAttempts, imageFetchVars, requests,
                   relayMessages, contentAndRest>>

\* setupOffscreenDocument() settles.  When it returns the callback sends
\* PROCESS_IMAGE_DATA; when it throws (createDocument rejected) the callback's
\* own promise rejects: the handler's try/catch does not enclose the callback,
\* and sendResponse is never called.
SetupEnds(ok) ==
    /\ fPc = "setup"
    /\ IF ok
       THEN /\ fPc' = "relay"
            /\ relayMessages' = relayMessages \cup {"FETCH_IMAGE_OFFSCREEN"}
       ELSE /\ fPc' = "rejected"
            /\ UNCHANGED relayMessages
    /\ UNCHANGED <<fWebp, fMsg, worker, imageBlob, successUrl, fAttempts, fResponse, imageFetchVars,
                   requests, contentAndRest>>

\* The relay's answer to PROCESS_IMAGE_DATA is passed on as the response.
RelayAnswers(ok) ==
    /\ fPc = "relay"
    /\ fPc' = "done"
    /\ fResponse' = IF ok THEN "success" ELSE "failure"
    /\ UNCHANGED <<fWebp, fMsg, worker, imageBlob, successUrl, fAttempts, imageFetchVars, requests,
                   relayMessages, contentAndRest>>

\* chrome.runtime.sendMessage rejects (no receiving end, or the port closed
\* before an answer): the callback's promise rejects as above.
RelayRejects ==
    /\ fPc = "relay"
    /\ fPc' = "rejected"
    /\ UNCHANGED <<fWebp, fMsg, worker, imageBlob, successUrl, fAttempts, fResponse, imageFetchVars,
                   requests, relayMessages, contentAndRest>>

\* ------------------------------------------------ background: FETCH_IMAGE
offscreenFetchVars ==
    <<fWebp, fMsg, worker, fPc, imageBlob, successUrl, fAttempts, fResponse, relayMessages>>

\* The handler issues its one fetch.
ImageFetchSend ==
    /\ iPc = "fetch"
    /\ requests' = requests \cup {Request("FETCH_IMAGE", "orig")}
    /\ iPc' = "await"
    /\ UNCHANGED <<iResponse, offscreenFetchVars, contentAndRest>>

\* The fetch ends: a network error or a non-2xx status is answered with a
\* failure, a 2xx response goes to FileReader whatever the size of its body.
ImageFetchAnswer(outcome) ==
    /\ iPc = "await"
    /\ IF outcome \in {"error", "status"}
       THEN iPc' = "done" /\ iResponse' = "failure"
       ELSE iPc' = "reading" /\ UNCHANGED iResponse
    /\ UNCHANGED <<requests, offscreenFetchVars, contentAndRest>>

\* FileReader ends: onloadend answers with the data URL, onerror with a failure.
ImageReaderEnds(ok) ==
    /\ iPc = "reading"
    /\ iPc' = "done"
    /\ iResponse' = IF ok THEN "success" ELSE "failure"
    /\ UNCHANGED <<requests, offscreenFetchVars, contentAndRest>>

FetchStart(workers) ==
    /\ worker \in workers
    /\ fMsg \in Messages
    /\ fWebp \in BOOLEAN
    /\ fPc = IF worker = "part_000" THEN "absent" ELSE "orig"
    /\ imageBlob = "null"
    /\ successUrl = "none"
    /\ fAttempts = <<>>
    /\ fResponse = "none"
    /\ iPc = "fetch"
    /\ iResponse = "none"
    /\ requests = {}
    /\ relayMessages = {}

InitFetch == FetchStart({"background.js"})

FetchQuiet ==
    InitFetch /\ fWebp = FALSE /\ fMsg = [pximg |-> FALSE, referer |-> "page"]

\* ------------------------------------ background: setupOffscreenDocument
NumCallers == 3
Callers == 1..NumCallers

contentAndFetch == <<contentVars, fetchVars, relayVars>>

PendingPromises == {c \in Callers : oPromise[c] = "pending"}

\* A caller enters setupOffscreenDocument and asks the browser for the existing
\* offscreen contexts.
SetupCall(c) ==
    /\ oPc[c] \in {"idle", "returned", "threw"}
    /\ oPc' = [oPc EXCEPT ![c] = "asked"]
    /\ UNCHANGED <<offscreenCreating, oPromise, oWaitOn, docState, docOwner,
                   replies, contentAndFetch>>

\* The browser answers getContexts from its state of the moment.  A document
\* still being created may or may not be listed yet.
BrowserGetContexts(c, listed) ==
    /\ oPc[c] = "asked"
    /\ listed \in (IF docState = "exists" THEN {TRUE}
                   ELSE IF docState = "creating" THEN BOOLEAN ELSE {FALSE})
    /\ oPc' = [oPc EXCEPT ![c] = "answered"]
    /\ replies' = Append(replies, [type |-> "contexts", to |-> c, ok |-> listed])
    /\ UNCHANGED <<offscreenCreating, oPromise, oWaitOn, docState, docOwner,
                   contentAndFetch>>

\* The test that decides between awaiting the tracked creation and creating.
CreationNeverTracked == FALSE

CreationTracked == offscreenCreating # 0

\* chrome.offscreen.createDocument called by c: the browser starts creating,
\* or refuses at once when a document exists or is being created.
CreateDocument(c, rest) ==
    IF docState = "none"
    THEN /\ docState' = "creating"
         /\ docOwner' = c
         /\ replies' = rest
    ELSE /\ replies' = Append(rest, [type |-> "refused", to |-> c, ok |-> FALSE])
         /\ UNCHANGED <<docState, docOwner>>

\* The worker receives the answer to c's getContexts and c runs on: return when
\* a context exists, else await the tracked promise (a rejected one throws at
\* once), else call createDocument and track its promise.
ContextsDelivered ==
    /\ replies # <<>>
    /\ Head(replies).type = "contexts"
    /\ LET c == Head(replies).to
       IN IF Head(replies).ok
          THEN /\ oPc' = [oPc EXCEPT ![c] = "returned"]
               /\ replies' = Tail(replies)
               /\ UNCHANGED <<offscreenCreating, oPromise, oWaitOn, docState, docOwner>>
          ELSE IF CreationTracked
          THEN /\ IF oPromise[offscreenCreating] = "pending"
                  THEN /\ oPc' = [oPc EXCEPT ![c] = "waiting"]
                       /\ oWaitOn' = [oWaitOn EXCEPT ![c] = offscreenCreating]
                  ELSE /\ oPc' = [oPc EXCEPT ![c] = "threw"]
                       /\ UNCHANGED oWaitOn
               /\ replies' = Tail(replies)
               /\ UNCHANGED <<offscreenCreating, oPromise, docState, docOwner>>
          ELSE /\ offscreenCreating' = c
               /\ oPromise' = [oPromise EXCEPT ![c] = "pending"]
               /\ oPc' = [oPc EXCEPT ![c] = "creating"]
               /\ CreateDocument(c, Tail(replies))
               /\ UNCHANGED oWaitOn
    /\ UNCHANGED contentAndFetch

\* The browser finishes (or gives up) the creation it works on.
BrowserCreateEnds(ok) ==
    /\ docState = "creating"
    /\ docState' = IF ok THEN "exists" ELSE "none"
    /\ replies' = Append(replies, [type |-> "created", to |-> docOwner, ok |-> ok])
    /\ UNCHANGED <<oPc, offscreenCreating, oPromise, oWaitOn, docOwner, contentAndFetch>>

\* The worker receives the end of c's createDocument: the promise settles, c
\* clears the tracker after a success (a rejection throws past the reset), and
\* every caller awaiting that promise runs on.
CreateDelivered ==
    /\ replies # <<>>
    /\ Head(replies).type \in {"created", "refused"}
    /\ LET c == Head(replies).to
           ok == Head(replies).ok
       IN /\ oPromise' = [oPromise EXCEPT ![c] = IF ok THEN "fulfilled" ELSE "rejected"]
          /\ offscreenCreating' = IF ok THEN 0 ELSE offscreenCreating
          /\ oPc' = [x \in Callers |->
                        IF x = c \/ (oPc[x] = "waiting" /\ oWaitOn[x] = c)
                        THEN (IF ok THEN "returned" ELSE "threw")
                        ELSE oPc[x]]
          /\ oWaitOn' = [x \in Callers |-> IF oWaitOn[x] = c THEN 0 ELSE oWaitOn[x]]
    /\ replies' = Tail(replies)
    /\ UNCHANGED <<docState, docOwner, contentAndFetch>>

InitOffscreen ==
    /\ oPc = [c \in Callers |-> "idle"]
    /\ offscreenCreating = 0
    /\ oPromise = [c \in Callers |-> "none"]
    /\ oWaitOn = [c \in Callers |-> 0]
    /\ docState = "none"
    /\ docOwner = 0
    /\ replies = <<>>

\* ------------------------------------------- offscreen: handleImageData
NumRequests == 2
Requests == 1..NumRequests
BlankCanvas == [w |-> 300, h |-> 150, img |-> 0]

\* The image of request r and its natural size.
ImageOf(r) == [w |-> 100 * r, h |-> 50 * r, img |-> r]

contentAndBackground == <<contentVars, fetchVars, offscreenVars>>

\* PROCESS_IMAGE_DATA arrives: handleImageData arms the 10 s timer, attaches
\* onload and onerror and sets img.src.  (A slot of the model serves a new
\* request once its earlier request is answered and its image has settled.)
RelayRequest(r) ==
    /\ rPc[r] \in {"idle", "responded"}
    /\ rDecode[r] # "pending"
    /\ rPc' = [rPc EXCEPT ![r] = "decoding"]
    /\ rTimer' = [rTimer EXCEPT ![r] = "armed"]
    /\ rDecode' = [rDecode EXCEPT ![r] = "pending"]
    /\ rResult' = [rResult EXCEPT ![r] = "none"]
    /\ rPayload' = [rPayload EXCEPT ![r] = 0]
    /\ UNCHANGED <<canvas, contentAndBackground>>

\* Whether a handler that fires after the promise has settled still runs its
\* body: nothing detaches onload or guards it.
OnLoadRuns(r) == TRUE

\* An onload that would encode the canvas before it draws its own image on it.
RelayOnLoadEncodesFirst(r, drawOk) ==
    /\ rDecode[r] = "pending"
    /\ rDecode' = [rDecode EXCEPT ![r] = "loaded"]
    /\ rTimer' = [rTimer EXCEPT ![r] = IF @ = "armed" THEN "cleared" ELSE @]
    /\ canvas' = IF drawOk THEN ImageOf(r) ELSE [ImageOf(r) EXCEPT !.img = canvas.img]
    /\ IF rResult[r] = "none"
       THEN /\ rResult' = [rResult EXCEPT ![r] = IF drawOk THEN "success" ELSE "draw_error"]
            /\ rPayload' = [rPayload EXCEPT ![r] = IF drawOk THEN canvas.img ELSE 0]
            /\ rPc' = [rPc EXCEPT ![r] = "responded"]
       ELSE UNCHANGED <<rResult, rPayload, rPc>>
    /\ UNCHANGED contentAndBackground

\* The image of r loads and onload runs: clearTimeout, size the canvas, draw,
\* re-encode (drawOk: no canvas fault), resolve or reject.  Settling a promise
\* that is already settled does nothing.
RelayOnLoad(r, drawOk) ==
    /\ rDecode[r] = "pending"
    /\ rDecode' = [rDecode EXCEPT ![r] = "loaded"]
    /\ rTimer' = [rTimer EXCEPT ![r] = IF @ = "armed" THEN "cleared" ELSE @]
    /\ IF OnLoadRuns(r)
       THEN canvas' = IF drawOk THEN ImageOf(r)
                      ELSE [ImageOf(r) EXCEPT !.img = canvas.img]
       ELSE UNCHANGED canvas
    /\ IF rResult[r] = "none"
       THEN /\ rResult' = [rResult EXCEPT ![r] = IF drawOk THEN "success" ELSE "draw_error"]
            /\ rPayload' = [rPayload EXCEPT ![r] = IF drawOk THEN canvas'.img ELSE 0]
            /\ rPc' = [rPc EXCEPT ![r] = "responded"]
       ELSE UNCHANGED <<rResult, rPayload, rPc>>
    /\ UNCHANGED contentAndBackground

\* The image of r fails to load and onerror runs: clearTimeout, reject.
RelayOnError(r) ==
    /\ rDecode[r] = "pending"
    /\ rDecode' = [rDecode EXCEPT ![r] = "errored"]
    /\ rTimer' = [rTimer EXCEPT ![r] = IF @ = "armed" THEN "cleared" ELSE @]
    /\ IF rResult[r] = "none"
       THEN /\ rResult' = [rResult EXCEPT ![r] = "load_error"]
            /\ rPc' = [rPc EXCEPT ![r] = "responded"]
       ELSE UNCHANGED <<rResult, rPc>>
    /\ UNCHANGED <<canvas, rPayload, contentAndBackground>>

\* The 10 s timer of r fires before onload or onerror: reject with a timeout,
\* and handleImageData returns the failure.
RelayTimeout(r) ==
    /\ rTimer[r] = "armed"
    /\ rTimer' = [rTimer EXCEPT ![r] = "fired"]
    /\ rResult' = [rResult EXCEPT ![r] = "timeout"]
    /\ rPc' = [rPc EXCEPT ![r] = "responded"]
    /\ UNCHANGED <<canvas, rDecode, rPayload, contentAndBackground>>

InitRelay ==
    /\ canvas = BlankCanvas
    /\ rPc = [r \in Requests |-> "idle"]
    /\ rTimer = [r \in Requests |-> "unset"]
    /\ rDecode = [r \in Requests |-> "none"]
    /\ rResult = [r \in Requests |-> "none"]
    /\ rPayload = [r \in Requests |-> 0]

\* ------------------------------------------------------------ specification
\* The page when the content script starts, its images drawn from kinds.
InitPage(kinds) ==
    /\ isPixiv \in BOOLEAN
    /\ kind \in [Images -> kinds]
    /\ present \in SUBSET Images
    /\ complete \in [Images -> BOOLEAN]
    /\ href = 0
    /\ processedImages = {}
    /\ processingQueue = <<>>
    /\ isProcessing = FALSE
    /\ failedImages = {}
    /\ observedImages = {}
    /\ currentUrl = 0
    /\ isPageChanging = FALSE
    /\ imageObserver = "null"
    /\ handlersInstalled = FALSE
    /\ initPc = "scan"
    /\ scanList = SetToSeq(present)
    /\ pending = [h \in Images |-> 0]
    /\ drainPc = [d \in DrainIds |-> "idle"]
    /\ drainElem = [d \in DrainIds |-> 0]
    /\ running = 0
    /\ ocrSubmissions = [h \in Images |-> 0]
    /\ ocrResult = [h \in Images |-> "none"]
    /\ overlayInvoked = {}
    /\ faulted = {}
    /\ extractNull = {}
    /\ originalPixivSrc = [h \in Images |-> NoSrc]
    /\ extractLog = [d \in DrainIds |-> <<>>]
    /\ imageData = [d \in DrainIds |-> NoData]
    /\ ocrBody = [d \in DrainIds |-> NoBody]
    /\ sPc = "idle"
    /\ sTimer = "none"
    /\ sClock = 0
    /\ sResult = "none"
    /\ lSite = FALSE
    /\ lImage = "none"
    /\ lPc = "idle"
    /\ lTimer = "none"
    /\ lClock = 0
    /\ lChecks = 0

\* The element before any overlay: its own src, no click listener.
PlainElement == [src |-> "page", original |-> "", translated |-> "",
                 showing |-> "", listener |-> FALSE, processing |-> FALSE,
                 record |-> FALSE]

\* No stored language, plain elements, and the OCR server of the run.
DefaultSettingsWith(server) ==
    /\ ocrServer = server
    /\ settingsLang = ""
    /\ targetLanguage = "Korean"
    /\ el = [h \in Images |-> PlainElement]

DefaultSettings == DefaultSettingsWith("sound")

InitContent == InitPage(ImageKinds) /\ DefaultSettings

ContentQuiet ==
    /\ generation = "chome"
    /\ InitContent
    /\ isPixiv = FALSE
    /\ present = {}
    /\ complete = [h \in Images |-> FALSE]
    /\ kind = [h \in Images |-> CHOOSE k \in ImageKinds : k.w < MinSize]

BackgroundQuiet == FetchQuiet /\ InitOffscreen /\ InitRelay

Init == generation = "chome" /\ InitContent /\ BackgroundQuiet

InitGenerations == generation \in Generations /\ InitContent /\ BackgroundQuiet

Next ==
    \/ ScanStep
    \/ ScanResume
    \/ InitFinish
    \/ \E h \in Images : ImageAdded(h)
    \/ \E h \in Images : ImageAttrChanged(h)
    \/ \E h \in Images : HandleNewImageResume(h)
    \/ \E h \in Images : ImageLoad(h)
    \/ Navigate
    \/ UrlChangeObserved
    \/ BeforeUnload
    \/ PopState
    \/ \E d \in DrainIds : DrainLoop(d)
    \/ \E d \in DrainIds, drawOk \in BOOLEAN : ExtractStart(d, drawOk)
    \/ \E d \in DrainIds, ok \in BOOLEAN, drawOk \in BOOLEAN : OffscreenReply(d, ok, drawOk)
    \/ \E d \in DrainIds, ok \in BOOLEAN : FetchReply(d, ok)
    \/ \E d \in DrainIds, ok \in BOOLEAN : DecodeDone(d, ok)
    \/ \E d \in DrainIds, res \in OcrResults \cup FaultyResults : OcrReply(d, res)
    \/ \E d \in DrainIds, loaded \in BOOLEAN : OverlayDone(d, loaded)

Spec == Init /\ [][Next]_vars

SpecGenerations == InitGenerations /\ [][Next]_vars

\* The content script on pages whose images lie around the size floor.
InitSizes ==
    generation = "chome" /\ InitPage(SizeKinds) /\ DefaultSettings /\ BackgroundQuiet

SpecSizes == InitSizes /\ [][Next]_vars

\* The content script against an OCR server whose answers may be malformed.
InitFaults ==
    /\ generation = "chome"
    /\ InitPage(ImageKinds)
    /\ DefaultSettingsWith("faulty")
    /\ BackgroundQuiet

SpecFaults == InitFaults /\ [][Next]_vars

\* What the code itself brings about in bounded time: its synchronous steps,
\* the cap timers of the load waits (2 s, 5 s), the 10 s timer of the decode,
\* the 120 s abort of the OCR request, and the load or error of the data URL
\* replaceTextInImage decodes.
OwnSteps ==
    /\ WF_vars(ScanStep)
    /\ WF_vars(ScanResume)
    /\ WF_vars(InitFinish)
    /\ \A h \in Images : WF_vars(HandleNewImageResume(h))
    /\ \A d \in DrainIds : WF_vars(DrainLoop(d))
    /\ \A d \in DrainIds : WF_vars(\E drawOk \in BOOLEAN : ExtractStart(d, drawOk))
    /\ \A d \in DrainIds : WF_vars(DecodeDone(d, FALSE))
    /\ \A d \in DrainIds : WF_vars(OcrReply(d, "null"))
    /\ \A d \in DrainIds : WF_vars(\E loaded \in BOOLEAN : OverlayDone(d, loaded))

\* The background answers FETCH_IMAGE and FETCH_IMAGE_OFFSCREEN.
MessageAnswers ==
    /\ \A d \in DrainIds :
          WF_vars(\E ok \in BOOLEAN, drawOk \in BOOLEAN : OffscreenReply(d, ok, drawOk))
    /\ \A d \in DrainIds : WF_vars(\E ok \in BOOLEAN : FetchReply(d, ok))

\* The content script with its own steps and timers running on, the answers of
\* the background left to the environment.
SpecTimers == Init /\ [][Next]_vars /\ OwnSteps

\* A page instance whose navigation epoch never trips.
NextStay ==
    \/ ScanStep
    \/ ScanResume
    \/ InitFinish
    \/ \E h \in Images : ImageAdded(h)
    \/ \E h \in Images : ImageAttrChanged(h)
    \/ \E h \in Images : HandleNewImageResume(h)
    \/ \E h \in Images : ImageLoad(h)
    \/ \E d \in DrainIds : DrainLoop(d)
    \/ \E d \in DrainIds, drawOk \in BOOLEAN : ExtractStart(d, drawOk)
    \/ \E d \in DrainIds, ok \in BOOLEAN, drawOk \in BOOLEAN : OffscreenReply(d, ok, drawOk)
    \/ \E d \in DrainIds, ok \in BOOLEAN : FetchReply(d, ok)
    \/ \E d \in DrainIds, ok \in BOOLEAN : DecodeDone(d, ok)
    \/ \E d \in DrainIds, res \in OcrResults : OcrReply(d, res)
    \/ \E d \in DrainIds, loaded \in BOOLEAN : OverlayDone(d, loaded)

\* Pages whose images all pass the size floor once loaded.
InitLive ==
    /\ generation = "chome"
    /\ InitPage({k \in ImageKinds : k.w > MinSize /\ k.h > MinSize})
    /\ DefaultSettings
    /\ BackgroundQuiet

\* Every per-item step terminates: the answers arrive too.
SpecLive == InitLive /\ [][NextStay]_vars /\ OwnSteps /\ MessageAnswers

\* The images the initial scan finds in the document.
ScanSnapshot == {1}

\* A page as in InitLive whose scan finds one image that has not loaded; the
\* other images are inserted later.
InitLate ==
    /\ InitLive
    /\ present = ScanSnapshot
    /\ \A h \in ScanSnapshot : ~complete[h]

\* The content script on such a page, absent navigation: every step of its own
\* is taken, every answer arrives and every image loads in the end.
SpecLate ==
    /\ InitLate
    /\ [][NextStay]_vars
    /\ OwnSteps
    /\ MessageAnswers
    /\ \A h \in Images : WF_vars(ImageLoad(h))

\* An element of a page that loads its images lazily: the page keeps the real
\* URI in data-original.
LazyElement == [PlainElement EXCEPT !.original = "lazy"]

\* A page, as in InitLive, whose user has stored a language or none and whose
\* images may carry the page's own data-original.
InitUser ==
    /\ generation = "chome"
    /\ InitPage({k \in ImageKinds : k.w > MinSize /\ k.h > MinSize})
    /\ ocrServer = "sound"
    /\ settingsLang \in {"", "Korean"}
    /\ targetLanguage = (IF settingsLang = "" THEN "Korean" ELSE settingsLang)
    /\ el \in [Images -> {PlainElement, LazyElement}]
    /\ BackgroundQuiet

NextUser ==
    \/ NextStay
    \/ \E l \in Languages : LanguageChanged(l)
    \/ \E h \in Images : Click(h)
    \/ \E h \in Images : SrcMutationObserved(h)

\* The content script with a user who changes the language and clicks.
SpecUser == InitUser /\ [][NextUser]_vars

\* The content script on a page of the hostile site.
InitPixiv ==
    /\ generation = "chome"
    /\ InitPage(PixivKinds)
    /\ isPixiv = TRUE
    /\ DefaultSettings
    /\ BackgroundQuiet

\* On the hostile site the background is asked by FETCH_IMAGE_OFFSCREEN only:
\* the steps after a FETCH_IMAGE message have nothing to answer.
NextPixiv ==
    \/ ScanStep
    \/ ScanResume
    \/ InitFinish
    \/ \E h \in Images : ImageAdded(h)
    \/ \E h \in Images : ImageAttrChanged(h)
    \/ \E h \in Images : HandleNewImageResume(h)
    \/ \E h \in Images : ImageLoad(h)
    \/ Navigate
    \/ UrlChangeObserved
    \/ BeforeUnload
    \/ PopState
    \/ \E d \in DrainIds : DrainLoop(d)
    \/ \E d \in DrainIds, drawOk \in BOOLEAN : ExtractStart(d, drawOk)
    \/ \E d \in DrainIds, ok \in BOOLEAN, drawOk \in BOOLEAN : OffscreenReply(d, ok, drawOk)
    \/ \E d \in DrainIds, res \in OcrResults : OcrReply(d, res)
    \/ \E d \in DrainIds, loaded \in BOOLEAN : OverlayDone(d, loaded)

SpecPixiv == InitPixiv /\ [][NextPixiv]_vars

\* The background's FETCH_IMAGE_OFFSCREEN and FETCH_IMAGE handlers, one
\* request each.
NextFetch ==
    \/ \E v \in Variants : FetchSend(v)
    \/ \E v \in Variants, outcome \in FetchOutcomes : FetchAnswer(v, outcome)
    \/ FetchCheck
    \/ \E ok \in BOOLEAN : ReaderEnds(ok)
    \/ \E ok \in BOOLEAN : SetupEnds(ok)
    \/ \E ok \in BOOLEAN : RelayAnswers(ok)
    \/ RelayRejects
    \/ ImageFetchSend
    \/ \E outcome \in FetchOutcomes : ImageFetchAnswer(outcome)
    \/ \E ok \in BOOLEAN : ImageReaderEnds(ok)

InitFetchHandler == ContentQuiet /\ InitFetch /\ InitOffscreen /\ InitRelay

SpecFetch == InitFetchHandler /\ [][NextFetch]_vars

\* The same with every step of the two handlers, the answers of the network,
\* of FileReader, of the browser and of the relay included, taken in the end.
SpecFetchFair == SpecFetch /\ WF_vars(NextFetch)

\* The handlers of either service worker script.
InitReferer == ContentQuiet /\ FetchStart(Workers) /\ InitOffscreen /\ InitRelay

SpecReferer == InitReferer /\ [][NextFetch]_vars

\* Concurrent calls of setupOffscreenDocument in the service worker.
NextOffscreen ==
    \/ \E c \in Callers : SetupCall(c)
    \/ \E c \in Callers, listed \in BOOLEAN : BrowserGetContexts(c, listed)
    \/ ContextsDelivered
    \/ \E ok \in BOOLEAN : BrowserCreateEnds(ok)
    \/ CreateDelivered

InitWorker == ContentQuiet /\ BackgroundQuiet

SpecOffscreen == InitWorker /\ [][NextOffscreen]_vars

\* The offscreen document serving PROCESS_IMAGE_DATA requests.
NextRelay ==
    \/ \E r \in Requests : RelayRequest(r)
    \/ \E r \in Requests, drawOk \in BOOLEAN : RelayOnLoad(r, drawOk)
    \/ \E r \in Requests : RelayOnError(r)
    \/ \E r \in Requests : RelayTimeout(r)

SpecRelay == InitWorker /\ [][NextRelay]_vars

\* ------------------------------------------------------------------ claims
WaitPcs == {"wait_offscreen", "wait_fetch", "wait_decode", "wait_ocr", "wait_overlay"}
InPipeline == {d \in DrainIds : drainPc[d] \notin {"idle", "loop"}}
InOcr == {d \in DrainIds : drainPc[d] = "wait_ocr"}
ActiveDrains == {d \in DrainIds : drainPc[d] # "idle"}

\* C1: at most one drain loop is active, at most one processImage execution is
\* in flight and at most one OCR submission is in flight, in every reachable
\* state, however often processQueue is called.
C1_SingleFlight ==
    /\ Cardinality(ActiveDrains) <= 1
    /\ Cardinality(InPipeline) <= 1
    /\ Cardinality(InOcr) <= 1

\* An OCR submission is in flight while admitted items wait in the queue.
C1_Witness ==
    /\ initPc = "done"
    /\ isProcessing
    /\ InOcr # {}
    /\ Len(processingQueue) > 0

\* C2: no image is submitted to the OCR endpoint more than once, and an item in
\* the pipeline is in processedImages from before its first suspension on.
C2_SubmittedAtMostOnce ==
    /\ \A h \in Images : ocrSubmissions[h] <= 1
    /\ \A d \in InPipeline : drainElem[d] \in processedImages

\* An image was submitted once although it is queued again.
C2_Witness ==
    \E h \in Images : ocrSubmissions[h] = 1 /\ Occurrences(processingQueue, h) >= 1

\* C3: an element is never in processingQueue more than once (it is never
\* appended more than once); stated for the states before the epoch trips, so
\* that a violation does not rest on the admissions that follow a trip.
C3_NoDuplicateQueueEntry ==
    \A h \in Images : ~isPageChanging => Occurrences(processingQueue, h) <= 1

\* C4: once the epoch has tripped no handle is added to processedImages and no
\* OCR submission begins, and the step that trips it empties the queue.
C4_NothingStartsAfterTrip ==
    [][ /\ isPageChanging =>
            /\ processedImages' = processedImages
            /\ ocrSubmissions' = ocrSubmissions
        /\ (~isPageChanging /\ isPageChanging') => processingQueue' = <<>> ]_vars

\* The epoch has tripped during a drain: the item in flight runs on, and an
\* admitted image that was waiting in the queue was dropped unprocessed.
C4_Witness ==
    /\ isPageChanging
    /\ \E d \in DrainIds : drainPc[d] \in WaitPcs
    /\ \E h \in observedImages \ processedImages : Occurrences(processingQueue, h) = 0

\* C5: once the epoch has tripped, observedImages does not grow and the queue
\* stays empty.
C5_NoAdmissionAfterTrip ==
    [][ isPageChanging =>
            /\ observedImages' \subseteq observedImages
            /\ processingQueue' = <<>> ]_vars

\* C10: an image whose OCR answer was an empty text_blocks list is processed,
\* not failed, and no overlay was invoked for it.
C10_EmptyResultIsBenign ==
    \A h \in Images :
        ocrResult[h] = "empty" =>
            /\ h \in processedImages
            /\ h \notin failedImages
            /\ h \notin overlayInvoked

\* The fetch phase of FETCH_IMAGE_OFFSCREEN is over, and how it ended.
FetchPhaseOver == fPc \in {"reading", "setup", "relay", "rejected", "done"}
FetchPhaseSucceeded == FetchPhaseOver /\ imageBlob = "bytes"
BytesAttempts == {i \in 1..Len(fAttempts) : fAttempts[i][2] = "bytes"}

\* C6: for a '_webp/' URL whose primary fetch returned empty bytes, the JPG
\* variant is the second attempt and the PNG variant, if tried, the third; if
\* neither variant returns bytes the response is a failure.
C6_VariantsTriedAfterEmptyPrimary ==
    (FetchPhaseOver /\ fWebp /\ fAttempts[1] = <<"orig", "empty">>) =>
        /\ Len(fAttempts) >= 2
        /\ fAttempts[2][1] = "jpg"
        /\ Len(fAttempts) >= 3 => fAttempts[3][1] = "png"
        /\ BytesAttempts = {} => fResponse = "failure"

\* C7: for a '_webp/' URL the fetch phase succeeds exactly when an attempt
\* returned bytes; it then took the first such attempt and made none after it;
\* it fails only after all three attempts were made and none returned bytes.
C7_FirstNonEmptyAttemptWins ==
    (FetchPhaseOver /\ fWebp) =>
        /\ FetchPhaseSucceeded <=> BytesAttempts # {}
        /\ FetchPhaseSucceeded =>
              /\ BytesAttempts = {Len(fAttempts)}
              /\ successUrl = fAttempts[Len(fAttempts)][1]
        /\ ~FetchPhaseSucceeded =>
              /\ Len(fAttempts) = 3
              /\ <<fAttempts[1][1], fAttempts[2][1], fAttempts[3][1]>> = <<"orig", "jpg", "png">>

\* C8: once a request has ended in a timeout, its result stays the timeout and
\* a later onload or onerror of its image leaves the shared canvas as it was.
C8_NoEffectAfterTimeout ==
    [][ \A r \in Requests :
            rResult[r] = "timeout" /\ rDecode[r] = "pending" =>
                /\ rResult'[r] = "timeout"
                /\ rPayload'[r] = rPayload[r]
                /\ rDecode'[r] # "pending" => canvas' = canvas ]_vars

\* C9: at most one createDocument promise is pending, the browser never has to
\* refuse a createDocument (none is called while a document exists or is being
\* created), and every waiting caller awaits the pending creation.
C9_SingleOffscreenDocument ==
    /\ Cardinality(PendingPromises) <= 1
    /\ \A i \in 1..Len(replies) : replies[i].type # "refused"
    /\ \A c \in PendingPromises :
          /\ docOwner = c
          /\ \/ docState = "creating"
             \/ \E i \in 1..Len(replies) : replies[i].type = "created"
    /\ \A c \in Callers : oPc[c] = "waiting" => oWaitOn[c] \in PendingPromises

\* One caller is creating the document while two others that found no context
\* await its promise.
C9_Witness ==
    \E a, b, c \in Callers :
        /\ a # b /\ b # c /\ a # c
        /\ oPc[a] = "creating"
        /\ oPc[b] = "waiting" /\ oWaitOn[b] = a
        /\ oPc[c] = "waiting" /\ oWaitOn[c] = a

\* The size an image shows when it is evaluated: its natural size once it has
\* loaded, its layout size before.
EvaluatedWidth(h) == IF complete[h] THEN kind[h].w ELSE kind[h].lw
EvaluatedHeight(h) == IF complete[h] THEN kind[h].h ELSE kind[h].lh

Busy == {d \in DrainIds : drainElem[d] # 0}
IsMessage(x) == x.op \in {"FETCH_IMAGE", "FETCH_IMAGE_OFFSCREEN"}
Sent(d) == {i \in 1..Len(extractLog[d]) : IsMessage(extractLog[d][i])}
Draws(d) == {i \in 1..Len(extractLog[d]) : extractLog[d][i].op = "draw"}

\* C12: for an item whose resolved source is on the hostile host, every
\* same-context draw comes after a FETCH_IMAGE_OFFSCREEN message and after the
\* failed answer to it, and a direct-draw payload exists only then.
C12_RelayBeforeDirectDraw ==
    \A d \in Busy :
        IncludesPximg(ResolvedSrc(drainElem[d])) =>
            /\ \A i \in Draws(d) :
                  \E j, k \in 1..(i - 1) :
                      /\ j < k
                      /\ extractLog[d][j].op = "FETCH_IMAGE_OFFSCREEN"
                      /\ extractLog[d][k] = Reply(FALSE)
            /\ imageData[d].from = "direct" => Draws(d) # {}

\* The relay path failed for a hostile-host image and the last-resort draw
\* produced the payload now submitted.
C12_Witness ==
    \E d \in Busy :
        /\ IncludesPximg(ResolvedSrc(drainElem[d]))
        /\ drainPc[d] = "wait_ocr"
        /\ imageData[d] = Direct(drainElem[d])

\* C16: for an item with a non-hostile source whose same-context draw
\* succeeded, the extraction sent no message, its payload is that draw, and the
\* OCR request carries exactly this payload.
C16_DirectDrawShortCircuits ==
    \A d \in Busy :
        (/\ ~IncludesPximg(ResolvedSrc(drainElem[d]))
         /\ \E i \in Draws(d) : extractLog[d][i].ok) =>
            /\ Sent(d) = {}
            /\ imageData[d] = Direct(drainElem[d])
            /\ drainPc[d] = "wait_ocr" => ocrBody[d].image = Direct(drainElem[d])

\* The OCR request of an image of the page's own host is in flight with the
\* payload of the one draw its extraction made.
C16_Witness ==
    \E d \in Busy :
        /\ kind[drainElem[d]].src = PageSrc
        /\ drainPc[d] = "wait_ocr"
        /\ extractLog[d] = <<Draw(TRUE)>>
        /\ ocrSubmissions[drainElem[d]] = 1

\* The canonical URI of each display URI, written out.
Canonical(u) ==
    IF u = SquareSrc
    THEN <<"i.pximg.net", "img-original", "img", "sample_p0", "_master1200", ".jpg">>
    ELSE IF u = ProxySrc
    THEN <<"i.pximg.net", "img-master", "img", "sample_p0", "_master1200", ".jpg">>
    ELSE IF u = CustomSrc
    THEN <<"i.pximg.net", "custom-thumb", "img", "sample_p0", "_master1200", ".jpg">>
    ELSE u

\* C17: on the hostile site, an observed or queued handle carries the canonical
\* URI of its display URI, and every message its extraction sends names that
\* recorded URI, not the display URI; no FETCH_IMAGE message is awaited.
C17_CanonicalUriRecordedAndUsed ==
    /\ \A d \in DrainIds : drainPc[d] \notin {"wait_fetch", "wait_decode"}
    /\ \A h \in Images :
          (h \in observedImages \/ Occurrences(processingQueue, h) > 0) =>
              originalPixivSrc[h] = Canonical(kind[h].src)
    /\ \A d \in Busy : \A i \in Sent(d) :
          /\ extractLog[d][i].url = originalPixivSrc[drainElem[d]]
          /\ extractLog[d][i].url # kind[drainElem[d]].src

\* The relay was asked for an image shown through the resize proxy, by its
\* canonical URI.
C17_Witness ==
    \E d \in Busy :
        /\ kind[drainElem[d]].src = ProxySrc
        /\ drainPc[d] = "wait_offscreen"
        /\ extractLog[d] = <<Send("FETCH_IMAGE_OFFSCREEN", Canonical(ProxySrc))>>

\* C13: an item whose processing raised a fault is in failedImages, and its
\* drain has gone on: no fault leaves a drain unable to resume.
C13_FaultIsCaughtAndLoopGoesOn ==
    \A h \in faulted :
        /\ h \in failedImages
        /\ \A d \in DrainIds : drainElem[d] = h => drainPc[d] # "hung"

\* C14: whatever the background and the OCR server do, a drain that awaits a
\* step of the item eventually leaves the item.
C14_EveryAwaitEnds ==
    \A d \in DrainIds :
        (drainPc[d] \in WaitPcs) ~> (drainPc[d] \in {"idle", "loop"})

\* C15: while the epoch does not trip and every step of an item terminates, a
\* handle in processingQueue is eventually popped and processed.
C15_AdmittedIsEventuallyProcessed ==
    \A h \in Images :
        (Occurrences(processingQueue, h) > 0) ~> (h \in processedImages)

\* After init, the watcher admitted an image while the drain was busy with
\* another item, the flag set; the first image is processed and fully done.
C15_Witness ==
    /\ initPc = "done"
    /\ isProcessing
    /\ \E h \in Images, d \in DrainIds :
          /\ processingQueue = <<h>>
          /\ h \notin processedImages
          /\ drainPc[d] = "wait_overlay"
          /\ drainElem[d] # h

\* ------------------------------------------------------------------- C18
\* The persisted target language, with the default init takes for none.
PersistedLanguage == IF settingsLang = "" THEN "Korean" ELSE settingsLang

\* C18: every step that starts an OCR submission gives its body the target
\* language persisted at that moment, changed since the page loaded or not,
\* and the body of a submission in flight keeps the value it started with.
C18_LanguageChangeTakesEffect ==
    [][\A d \in DrainIds :
          /\ (drainPc[d] # "wait_ocr" /\ drainPc'[d] = "wait_ocr")
                => ocrBody'[d].target_lang = PersistedLanguage
          /\ (drainPc[d] = "wait_ocr" /\ drainPc'[d] = "wait_ocr")
                => ocrBody'[d] = ocrBody[d]]_vars

\* A submission started after a change to English is still in flight when the
\* language is changed again.
C18_Witness ==
    \E d \in DrainIds :
        /\ drainPc[d] = "wait_ocr"
        /\ ocrBody[d].target_lang = "English"
        /\ targetLanguage = "Korean"

\* ------------------------------------------------------------------- C19
\* C19: once an overlay has been applied to an element, a click flips
\* dataset.showing between 'translated' and 'original', src is then
\* dataset.translated or dataset.original accordingly, and a second click
\* restores the element.
C19_ClickToggles ==
    \A h \in Images :
        el[h].translated # "" =>
            LET once == ClickResult(el[h])
                twice == ClickResult(once)
            IN /\ el[h].showing \in {"translated", "original"}
               /\ once.showing \in {"translated", "original"} \ {el[h].showing}
               /\ once.src = (IF once.showing = "translated"
                              THEN once.translated ELSE once.original)
               /\ twice = el[h]

\* ------------------------------------------------------------------- C20
\* C20: every fetch the background issues for FETCH_IMAGE or for
\* FETCH_IMAGE_OFFSCREEN, the two fallback attempts included, is made with
\* credentials 'omit'.
C20_RequestsOmitCredentials ==
    \A r \in requests : r.init.credentials = "omit"

\* All four call sites have issued their fetch.
C20_Witness ==
    /\ \A v \in Variants :
          \E r \in requests : r.type = "FETCH_IMAGE_OFFSCREEN" /\ r.variant = v
    /\ \E r \in requests : r.type = "FETCH_IMAGE"

\* ------------------------------------------------------------------- C22
\* C22: in every reachable state processedImages is a subset of
\* observedImages and failedImages is a subset of processedImages.
C22_ProcessedWithinObserved ==
    /\ processedImages \subseteq observedImages
    /\ failedImages \subseteq processedImages

\* An item failed, one way or the other, while another observed image has not
\* been processed.
C22_Witness ==
    /\ failedImages # {}
    /\ faulted # {}
    /\ observedImages \ processedImages # {}

\* ------------------------------------------------------------------- C23
\* C23: once isPageChanging is true it stays true in every later state.
C23_EpochIsPermanent == [][isPageChanging => isPageChanging']_vars

\* The epoch was tripped by an observed URL change, and the drain that was
\* running has ended since.
C23_Witness ==
    /\ isPageChanging
    /\ currentUrl # 0
    /\ processedImages # {}
    /\ \A d \in DrainIds : drainPc[d] = "idle"

\* ------------------------------------------------------------------- C24
\* C24: the queue is first in, first out and items are processed one after
\* the other.  A step changes the queue only by appending at its tail, by
\* removing its head or by emptying it; the processing of a handle starts
\* with the step that removes it as the head, and only when the item before
\* it has left the pipeline.  Hence of two handles that are both processed,
\* the one appended first starts and finishes first.
C24_FifoOrder ==
    [][/\ \/ processingQueue' = processingQueue
          \/ processingQueue' = <<>>
          \/ processingQueue # <<>> /\ processingQueue' = Tail(processingQueue)
          \/ \E h \in Images : processingQueue' = Append(processingQueue, h)
       /\ \A e \in processedImages' \ processedImages :
             /\ processingQueue # <<>>
             /\ e = Head(processingQueue)
             /\ processingQueue' = Tail(processingQueue)
             /\ \A d \in DrainIds : drainElem[d] = 0]_vars

\* One handle is in the pipeline while a handle appended after it waits.
C24_Witness ==
    /\ ~isPageChanging
    /\ processingQueue # <<>>
    /\ Head(processingQueue) \notin processedImages
    /\ \E d \in DrainIds :
          drainPc[d] \in WaitPcs /\ drainElem[d] # Head(processingQueue)

\* ------------------------------------------------------------------- C25
\* C25: in a state where isPageChanging is true no drain begins an
\* asynchronous step: none moves on to the wait for a FETCH_IMAGE or
\* FETCH_IMAGE_OFFSCREEN answer, for the decode of fetched bytes, for the OCR
\* answer or for the overlay's image.
C25_NoAsyncStepAfterTrip ==
    [][\A d \in DrainIds :
          (isPageChanging /\ drainPc'[d] # drainPc[d]) => drainPc'[d] \notin WaitPcs]_vars

\* ------------------------------------------------------------------- C26
\* C26: an item for which extractImageData resolved with null is in
\* failedImages and no OCR submission was made for it.
C26_NullExtractionFails ==
    \A e \in extractNull : e \in failedImages /\ ocrSubmissions[e] = 0

\* ------------------------------------------------------------------- C27
\* C27: an item whose OCR answer was a success body without a text_blocks
\* field is not in failedImages.
C27_MissingFieldIsBenign ==
    \A h \in Images : ocrResult[h] = "nofield" => h \notin failedImages

\* ------------------------------------------------------------------- C30
\* C30: an item in failedImages is as it was before processing: src and the
\* dataset entries original, translated and showing unchanged, and without the
\* 'ocr-processing' class.
C30_FailedItemUntouched ==
    \A h \in failedImages : el[h] = PlainElement

\* ------------------------------------------------------------------- C21
\* C21: every FETCH_IMAGE and every FETCH_IMAGE_OFFSCREEN request is answered
\* in the end, with a success or with a failure response.
C21_EveryRequestAnswered ==
    /\ <>(fResponse \in {"success", "failure"})
    /\ <>(iResponse \in {"success", "failure"})

\* ------------------------------------------------------------------- C28
\* C28: a success response of either handler carries bytes the relay has
\* re-encoded: the handler sent PROCESS_IMAGE_DATA before it answered.
C28_SuccessWentThroughRelay ==
    /\ fResponse = "success" => "FETCH_IMAGE_OFFSCREEN" \in relayMessages
    /\ iResponse = "success" => "FETCH_IMAGE" \in relayMessages

\* ------------------------------------------- content: sendToOCRServer, timed
\* setTimeout(() => controller.abort(), 120000)
OcrTimeout == 120000
\* The clock advances in steps of TickMs, up to the horizon MaxClock.
TickMs == 5000
MaxClock == 200000

Min(a, b) == IF a < b THEN a ELSE b

\* What the server does before the response resolves: it answers with a 2xx
\* status line, with another status, or the connection fails.
HeaderOutcomes == {"ok", "status", "error"}

\* The call begins: the epoch check, then the abort timer is armed and the
\* request leaves.
OcrCallStart ==
    /\ sPc = "idle"
    /\ IF isPageChanging
         THEN sPc' = "resolved" /\ sResult' = "null" /\ UNCHANGED sTimer
         ELSE sPc' = "headers" /\ sTimer' = "armed" /\ UNCHANGED sResult
    /\ UNCHANGED <<sClock, waitVars, scriptVars, backgroundVars>>

\* Time passes while the call is pending.  An armed timer fires at its
\* deadline: the clock does not pass the deadline while the timer is armed.
ClockTick ==
    /\ sPc \in {"headers", "body"}
    /\ sClock < MaxClock
    /\ sTimer = "armed" => sClock < OcrTimeout
    /\ sClock' = IF sTimer = "armed"
                   THEN Min(sClock + TickMs, OcrTimeout)
                   ELSE Min(sClock + TickMs, MaxClock)
    /\ UNCHANGED <<sPc, sTimer, sResult, waitVars, scriptVars, backgroundVars>>

\* The timer's callback: controller.abort() rejects the pending fetch and the
\* catch block returns null.
OcrTimerFires ==
    /\ sTimer = "armed"
    /\ sClock >= OcrTimeout
    /\ sTimer' = "fired"
    /\ IF sPc = "headers"
         THEN sPc' = "resolved" /\ sResult' = "null"
         ELSE UNCHANGED <<sPc, sResult>>
    /\ UNCHANGED <<sClock, waitVars, scriptVars, backgroundVars>>

\* await fetch(...) settles.  On a response the timer is cleared and the
\* status examined; on a rejection the catch block returns null and the timer
\* is left as it is.
OcrHeaders(outcome) ==
    /\ sPc = "headers"
    /\ CASE outcome = "ok" ->
              sPc' = "body" /\ sTimer' = "cleared" /\ UNCHANGED sResult
         [] outcome = "status" ->
              sPc' = "resolved" /\ sTimer' = "cleared" /\ sResult' = "null"
         [] outcome = "error" ->
              sPc' = "resolved" /\ sResult' = "null" /\ UNCHANGED sTimer
    /\ UNCHANGED <<sClock, waitVars, scriptVars, backgroundVars>>

\* await response.json() settles: with the parsed body, or with a rejection
\* the catch block turns into null.  A body that never completes is the
\* absence of this step.
OcrBody(parsed) ==
    /\ sPc = "body"
    /\ sPc' = "resolved"
    /\ sResult' = IF parsed THEN "parsed" ELSE "null"
    /\ UNCHANGED <<sTimer, sClock, waitVars, scriptVars, backgroundVars>>

InitOcrCall == ContentQuiet /\ BackgroundQuiet

NextOcrCall ==
    \/ OcrCallStart
    \/ ClockTick
    \/ OcrTimerFires
    \/ \E outcome \in HeaderOutcomes : OcrHeaders(outcome)
    \/ \E parsed \in BOOLEAN : OcrBody(parsed)

SpecOcrCall == InitOcrCall /\ [][NextOcrCall]_vars

\* ------------------------------------------------------------------- C29
\* C29: a call of sendToOCRServer is never pending more than 120 seconds
\* after it began, whatever the server does, and a call that resolved without
\* a parsed body resolved with null.
C29_ResolvesWithinTimeout ==
    /\ sPc \in {"headers", "body"} => sClock <= OcrTimeout
    /\ sPc = "resolved" => sResult \in {"null", "parsed"}

GenericCap == 2000
SiteCap == 5000
\* The clock advances in steps of LoadTickMs, up to the horizon LoadHorizon.
LoadTickMs == 500
LoadHorizon == 6000

LoadCap == IF lSite THEN SiteCap ELSE GenericCap

\* The condition of the wait: !img.complete, and in the site-specific protocol
\* also naturalWidth === 0.  A broken image is complete with naturalWidth 0.
MustWait(site, image) ==
    IF site THEN image # "loaded" ELSE image = "loading"

\* A caller that would wait for the load event alone.
LoadWaitStartNoTimer(site, image) ==
    /\ lPc = "idle"
    /\ lSite' = site
    /\ lImage' = image
    /\ IF MustWait(site, image)
         THEN lPc' = "waiting" /\ UNCHANGED <<lTimer, lChecks>>
         ELSE lPc' = "done" /\ lChecks' = lChecks + 1 /\ UNCHANGED lTimer
    /\ UNCHANGED <<lClock, ocrCallVars, scriptVars, backgroundVars>>

\* The scan or handleNewImage comes to an image: it arms the cap timer, adds
\* the load listener and waits, or goes to the size check at once.
LoadWaitStart(site, image) ==
    /\ lPc = "idle"
    /\ lSite' = site
    /\ lImage' = image
    /\ IF MustWait(site, image)
         THEN lPc' = "waiting" /\ lTimer' = "armed" /\ UNCHANGED lChecks
         ELSE lPc' = "done" /\ lChecks' = lChecks + 1 /\ UNCHANGED lTimer
    /\ UNCHANGED <<lClock, ocrCallVars, scriptVars, backgroundVars>>

\* Time passes.  An armed timer fires at its deadline: the clock does not pass
\* the deadline while the timer is armed.
LoadClockTick ==
    /\ lPc # "idle"
    /\ lClock < LoadHorizon
    /\ lTimer = "armed" => lClock < LoadCap
    /\ lClock' = IF lTimer = "armed"
                   THEN Min(lClock + LoadTickMs, LoadCap)
                   ELSE Min(lClock + LoadTickMs, LoadHorizon)
    /\ UNCHANGED <<lSite, lImage, lPc, lTimer, lChecks, ocrCallVars, scriptVars,
                   backgroundVars>>

\* The image finishes loading, or fails to.  The load listener ({ once: true })
\* clears the timer and resolves; a promise already resolved by the timer
\* stays as it is.  The size check follows the resolution.
LoadEvent(ok) ==
    /\ lImage = "loading"
    /\ lImage' = IF ok THEN "loaded" ELSE "broken"
    /\ IF ok /\ lPc = "waiting"
         THEN /\ lPc' = "done"
              /\ lTimer' = IF lTimer = "armed" THEN "cleared" ELSE lTimer
              /\ lChecks' = lChecks + 1
         ELSE /\ lTimer' = IF ok /\ lTimer = "armed" THEN "cleared" ELSE lTimer
              /\ UNCHANGED <<lPc, lChecks>>
    /\ UNCHANGED <<lSite, lClock, ocrCallVars, scriptVars, backgroundVars>>

\* The cap timer's callback resolves the promise; the size check follows.
LoadTimerFires ==
    /\ lTimer = "armed"
    /\ lClock >= LoadCap
    /\ lTimer' = "fired"
    /\ IF lPc = "waiting"
         THEN lPc' = "done" /\ lChecks' = lChecks + 1
         ELSE UNCHANGED <<lPc, lChecks>>
    /\ UNCHANGED <<lSite, lImage, lClock, ocrCallVars, scriptVars, backgroundVars>>

InitLoadWait == ContentQuiet /\ BackgroundQuiet

NextLoadWait ==
    \/ \E site \in BOOLEAN, image \in {"loading", "loaded", "broken"} :
          LoadWaitStart(site, image)
    \/ LoadClockTick
    \/ \E ok \in BOOLEAN : LoadEvent(ok)
    \/ LoadTimerFires

SpecLoadWait == InitLoadWait /\ [][NextLoadWait]_vars

\* ------------------------------------------------------------------- C32
\* C32: the wait for an image's load is over when the cap has passed (2000 ms
\* generic, 5000 ms site-specific) whether or not the image ever loads, and
\* the size check has then run exactly once, never more.
C32_LoadWaitEndsAndChecksOnce ==
    /\ lPc = "waiting" => lClock <= LoadCap
    /\ lPc = "done" => lChecks = 1
    /\ lPc # "done" => lChecks = 0

\* A wait the cap timer ended, for an image that has not loaded, and time has
\* gone on.
C32_Witness ==
    /\ lPc = "done"
    /\ lTimer = "fired"
    /\ lImage # "loaded"
    /\ lClock > LoadCap

\* ------------------------------------------------------------------- C33
\* C33: isProcessing is true exactly while a drain loop is executing or
\* suspended in an await: once processQueue has returned, because the queue
\* drained, the epoch tripped or an item faulted, the flag is false.
C33_FlagFollowsDrainLoop ==
    isProcessing <=> ActiveDrains # {}

\* processQueue has returned after an item faulted and the fault was caught.
C33_Witness ==
    /\ initPc = "done"
    /\ faulted \cap failedImages # {}
    /\ ActiveDrains = {}
    /\ ~isProcessing

\* ------------------------------------------------------------------- C34
\* C34: when the image watcher is given the src mutation an overlay or a
\* toggle has caused, the handle is not admitted again: observedImages, the
\* queue, the waiting handleNewImage calls and the drain loops stay as they
\* are, and the element has been submitted to OCR once at most.
C34_OverlayNeverReadmits ==
    [][\A h \in Images :
          (el[h].record /\ ~el'[h].record) =>
             /\ observedImages' = observedImages
             /\ processingQueue' = processingQueue
             /\ pending' = pending
             /\ drainPc' = drainPc
             /\ ocrSubmissions'[h] <= 1]_vars

\* The watcher has been given the mutation of an overlay and of a toggle: the
\* element shows its original again and no record is left.
C34_Witness ==
    \E h \in Images :
        /\ el[h].listener
        /\ el[h].showing = "original"
        /\ ~el[h].record
        /\ imageObserver = "observing"

\* ------------------------------------------------------------------- C35
\* C35: an image that passes the admission tests and is inserted while the
\* scan waits on a load, after the scan's snapshot and before the image
\* watcher is installed, is admitted in the end, absent navigation.
C35_LateImageIsAdmitted ==
    \A h \in Images \ ScanSnapshot :
        (h \in present /\ initPc = "scanwait" /\ ~SourceRejected(h))
            ~> (h \in observedImages)

\* ------------------------------------------------------------------- C36
\* C36: once the navigation epoch has tripped no handle is added to
\* failedImages, and the item the trip interrupted stays in processedImages.
C36_TripNeverFails ==
    [][isPageChanging =>
          /\ failedImages' = failedImages
          /\ processedImages \subseteq processedImages']_vars

\* The trip came while an item was in acquisition or in the OCR call: the call
\* gave null and the item is processed and not failed.
C36_Witness ==
    /\ isPageChanging
    /\ ActiveDrains = {}
    /\ \E h \in processedImages \ failedImages :
          h \in extractNull \/ ocrResult[h] = "null"

\* ------------------------------------------------------------------- C37
\* C37: while the navigation epoch has not tripped, every handle in
\* observedImages is in processingQueue, is the item a drain loop holds, or is
\* in processedImages.
C37_NoAdmittedHandleLost ==
    ~isPageChanging =>
        \A h \in observedImages :
            \/ Occurrences(processingQueue, h) > 0
            \/ \E d \in DrainIds : drainElem[d] = h
            \/ h \in processedImages

\* Before any trip: one admitted handle waits in the queue, not yet
\* processed, while another is in flight.
C37_Witness ==
    /\ ~isPageChanging
    /\ \E h \in observedImages :
          /\ Occurrences(processingQueue, h) > 0
          /\ h \notin processedImages
    /\ \E h \in observedImages, d \in DrainIds :
          drainElem[d] = h /\ drainPc[d] \in WaitPcs

\* ------------------------------------------------------------------- C38
\* C38: offscreenCreating is non-null only while a creation is in flight: it
\* names a createDocument promise that is still pending, so that after a
\* failed creation a later call finds it null and creates again.
C38_TrackerOnlyWhileCreating ==
    offscreenCreating # 0 => oPromise[offscreenCreating] = "pending"

\* ------------------------------------------------------------------- C39
\* C39: a PROCESS_IMAGE_DATA request answered with a success carries the
\* re-encoding of its own image, whatever other requests have drawn on the
\* shared canvas meanwhile.
C39_ResponseCarriesOwnImage ==
    \A r \in Requests : rResult[r] = "success" => rPayload[r] = r

\* Two requests answered with a success, the canvas holding the image of the
\* one that drew last.
C39_Witness ==
    \E r, q \in Requests :
        /\ r # q
        /\ rResult[r] = "success" /\ rResult[q] = "success"
        /\ canvas.img = q

\* ------------------------------------------------------------------- C40
\* C40: at most one element carries the 'ocr-processing' class, and none does
\* while no item is in flight.
C40_ProcessingClassFollowsItem ==
    LET marked == {h \in Images : el[h].processing}
    IN /\ Cardinality(marked) <= 1
       /\ InPipeline = {} => marked = {}
====
